---- MODULE Spec2Model ----
(***************************************************************************)
(* Model of the idea-to-landing-page generation pipeline:                  *)
(*   - streamChatCompletion  (lib/streamOpenAi, src/unnamed/part_002)      *)
(*   - POST /api/generator   (src/lib/dynamicLandingStore.ts:337-804)      *)
(*   - createPageContent     (src/lib/kv.ts:161-192)                       *)
(*   - createDynamicLandingPage / validateContent                          *)
(*                           (src/lib/dynamicLandingStore.ts:75-189)       *)
(*                                                                         *)
(* JavaScript values are tagged records [t |-> type, v |-> payload].       *)
(* A string is a sequence of atoms: " " is a whitespace character, "." a   *)
(* period, every other atom a non-empty run of text that holds neither a   *)
(* period nor leading/trailing whitespace.                                 *)
(***************************************************************************)
EXTENDS Integers, Sequences, FiniteSets, TLC

(***************************************************************************)
(* Bounds of the model.                                                    *)
(***************************************************************************)
\* how far a list of the modelled upstream JSON may exceed its target length
MaxOver == 1
\* keep-alive ticks modelled per request
MaxPings == 1

(***************************************************************************)
(* JavaScript values                                                       *)
(***************************************************************************)
Undefined == [t |-> "undefined", v |-> 0]
Null == [t |-> "null", v |-> 0]
Bool(b) == [t |-> "bool", v |-> b]
Num(n) == [t |-> "num", v |-> n]
Str(s) == [t |-> "str", v |-> s]
Arr(a) == [t |-> "arr", v |-> a]
Obj(f) == [t |-> "obj", v |-> f]

\* the empty object {}
EmptyFields == [k \in {} |-> Undefined]

IsNullish(x) == x.t \in {"undefined", "null"}
IsArray(x) == x.t = "arr"
IsString(x) == x.t = "str"

\* ToBoolean: "", 0, false, null and undefined are falsy
Truthy(x) ==
  CASE x.t = "undefined" -> FALSE
    [] x.t = "null" -> FALSE
    [] x.t = "bool" -> x.v
    [] x.t = "num" -> x.v # 0
    [] x.t = "str" -> x.v # <<>>
    [] OTHER -> TRUE

\* a || b
Or(a, b) == IF Truthy(a) THEN a ELSE b

\* x.k for a non-nullish x: own property of an object, undefined on the
\* primitives and arrays the pipeline meets (none of the probed keys is a
\* built-in property)
Get(x, k) ==
  IF x.t = "obj" /\ k \in DOMAIN x.v THEN x.v[k] ELSE Undefined

\* x?.k
OptGet(x, k) == IF IsNullish(x) THEN Undefined ELSE Get(x, k)

\* Number -> decimal text, for the numbers the model uses (0..9)
NumText(n) == <<"0", "1", "2", "3", "4", "5", "6", "7", "8", "9">>[n + 1]

RECURSIVE JoinComma(_)
RECURSIVE ToStr(_)
\* String(x)
ToStr(x) ==
  CASE x.t = "undefined" -> <<"undefined">>
    [] x.t = "null" -> <<"null">>
    [] x.t = "bool" -> IF x.v THEN <<"true">> ELSE <<"false">>
    [] x.t = "num" -> <<NumText(x.v)>>
    [] x.t = "str" -> x.v
    [] x.t = "arr" -> JoinComma(x.v)
    [] OTHER -> <<"[object Object]">>
\* Array.prototype.join(","): null and undefined elements give ""
JoinComma(a) ==
  IF a = <<>> THEN <<>>
  ELSE LET h == IF IsNullish(a[1]) THEN <<>> ELSE ToStr(a[1])
       IN IF Len(a) = 1 THEN h ELSE h \o <<",">> \o JoinComma(Tail(a))

\* String(x) as a value
String(x) == Str(ToStr(x))

RECURSIVE TrimLeft(_)
TrimLeft(s) == IF s # <<>> /\ s[1] = " " THEN TrimLeft(Tail(s)) ELSE s
RECURSIVE TrimRight(_)
TrimRight(s) ==
  IF s # <<>> /\ s[Len(s)] = " " THEN TrimRight(SubSeq(s, 1, Len(s) - 1)) ELSE s
\* String.prototype.trim
Trim(s) == TrimRight(TrimLeft(s))

\* String.prototype.includes(".")
IncludesDot(s) == \E i \in 1..Len(s) : s[i] = "."

RECURSIVE SplitDot(_)
\* String.prototype.split("."): the pieces between periods, empty ones kept
SplitDot(s) ==
  IF ~IncludesDot(s) THEN <<s>>
  ELSE LET i == CHOOSE j \in 1..Len(s) : s[j] = "." /\ \A m \in 1..(j - 1) : s[m] # "."
       IN <<SubSeq(s, 1, i - 1)>> \o SplitDot(SubSeq(s, i + 1, Len(s)))

RECURSIVE FilterNonEmpty(_)
\* Array.prototype.filter(part => part) on strings: empty parts are dropped
FilterNonEmpty(parts) ==
  IF parts = <<>> THEN <<>>
  ELSE (IF parts[1] # <<>> THEN <<parts[1]>> ELSE <<>>) \o FilterNonEmpty(Tail(parts))

\* a.slice(0, n)
Take(a, n) == SubSeq(a, 1, IF Len(a) < n THEN Len(a) ELSE n)
\* a.slice(n)
Drop(a, n) == SubSeq(a, n + 1, Len(a))

(***************************************************************************)
(* The normalizer of POST /api/generator                                   *)
(***************************************************************************)
\* the icon set; the source holds six emoji, named here in ASCII
FEATURE_ICONS == <<"bolt", "tools", "lock", "phone", "globe", "sparkles">>

Text(a) == Str(<<a>>)

DefaultHeroTitle == <<Text("Build"), Text("Launch"), Text("Scale")>>

DefaultPricingTiers ==
  << Obj([name |-> Text("Basic"), price |-> Text("$29/month"),
          description |-> Text("Perfect for getting started"),
          features |-> Arr(<<Text("Core features"), Text("Basic support"),
                             Text("Up to 1000 users"), Text("1 project")>>)]),
     Obj([name |-> Text("Pro"), price |-> Text("$99/month"),
          description |-> Text("For growing businesses"),
          features |-> Arr(<<Text("All Basic features"), Text("Priority support"),
                             Text("Unlimited users"), Text("Unlimited projects")>>)]) >>

DefaultTestimonials ==
  [i \in 1..8 |->
     Obj([name |-> Str(<<"Customer", " ", NumText(i)>>),
          role |-> Text("Satisfied User"),
          content |-> Str(<<"This product has transformed how we work", ".", " ",
                            "The implementation was smooth, and the results were immediate",
                            ".", " ",
                            "Highly recommended for any business looking to improve their operations",
                            ".">>),
          avatar |-> Null])]

DefaultFaqs ==
  [i \in 1..6 |->
     Obj([question |-> Str(<<"Common Question", " ", NumText(i), "?">>),
          answer |-> Str(<<"We understand this is an important consideration", ".", " ",
                           "Our solution is designed to address this exact need, providing you with the tools and support necessary for success",
                           ".">>)])]

\* the first array among content[key] and content[s]?.[key] for the sections
\* s in order, else the default
ProbeArray(content, key, sections, default) ==
  IF IsArray(Get(content, key)) THEN Get(content, key).v
  ELSE IF IsArray(OptGet(Get(content, sections[1]), key))
       THEN Get(Get(content, sections[1]), key).v
  ELSE IF IsArray(OptGet(Get(content, sections[2]), key))
       THEN Get(Get(content, sections[2]), key).v
  ELSE IF IsArray(OptGet(Get(content, sections[3]), key))
       THEN Get(Get(content, sections[3]), key).v
  ELSE default

\* a || b || c || d || default for a scalar probed at content[key] and
\* content[s]?.[sub] for the sections s
ProbeScalar(content, key, sections, sub, default) ==
  Or(Get(content, key),
     Or(OptGet(Get(content, sections[1]), sub),
        Or(OptGet(Get(content, sections[2]), sub),
           Or(OptGet(Get(content, sections[3]), sub), default))))

HeroTitleFound(content) ==
  ProbeArray(content, "heroTitle", <<"hero", "Hero", "heroSection">>, DefaultHeroTitle)

\* heroTitle[0].includes(".") on a one-entry title: a string searches its
\* text, an array searches its elements, anything else has no includes
HeroIncludesDot(e) ==
  CASE e.t = "str" -> IncludesDot(e.v)
    [] e.t = "arr" -> \E i \in 1..Len(e.v) : e.v[i] = Text(".")
    [] OTHER -> FALSE

\* the split step raises a TypeError: includes is missing on the entry, or
\* the entry is an array that includes "." and has no split
HeroSplitThrows(h) ==
  /\ Len(h) = 1
  /\ \/ h[1].t \notin {"str", "arr"}
     \/ h[1].t = "arr" /\ HeroIncludesDot(h[1])

\* the split without the trim of its parts
HeroSplit_NoTrim(h) ==
  IF Len(h) = 1 /\ h[1].t = "str" /\ IncludesDot(h[1].v)
  THEN LET kept == FilterNonEmpty(SplitDot(h[1].v))
       IN [i \in 1..Len(kept) |-> Str(kept[i])]
  ELSE h

\* heroTitle[0].split(".").map(trim).filter(nonempty)
HeroSplit(h) ==
  IF Len(h) = 1 /\ h[1].t = "str" /\ IncludesDot(h[1].v)
  THEN LET parts == SplitDot(h[1].v)
           trimmed == [i \in 1..Len(parts) |-> Trim(parts[i])]
           kept == FilterNonEmpty(trimmed)
       IN [i \in 1..Len(kept) |-> Str(kept[i])]
  ELSE h

\* the padding without the final slice(0, 3)
HeroPad_NoSlice(h) ==
  IF Len(h) < 3 THEN h \o Drop(DefaultHeroTitle, Len(h)) ELSE h

\* pad from the default triple, then slice(0, 3)
HeroPad(h) ==
  Take(IF Len(h) < 3 THEN h \o Drop(DefaultHeroTitle, Len(h)) ELSE h, 3)

FeaturesFound(content) ==
  ProbeArray(content, "features", <<"features", "Features", "featuresSection">>, <<>>)

PricingTiersFound(content) ==
  ProbeArray(content, "pricingTiers", <<"pricing", "Pricing", "pricingSection">>,
             DefaultPricingTiers)

TestimonialsFound(content) ==
  ProbeArray(content, "testimonials",
             <<"testimonials", "Testimonials", "testimonialsSection">>,
             DefaultTestimonials)

FaqsFound(content) ==
  ProbeArray(content, "faqs", <<"faq", "FAQ", "faqSection">>, DefaultFaqs)

DefaultFeature(i) ==
  Obj([title |-> Str(<<"Feature", " ", NumText(i + 1)>>),
       content |-> Str(<<"This feature helps you achieve your goals more efficiently", ".">>),
       icon |-> Text(FEATURE_ICONS[(i % 6) + 1])])

AdditionalFeature(i, len) ==
  Obj([title |-> Str(<<"Additional Feature", " ", NumText(i + 1)>>),
       content |-> Str(<<"This feature enhances your experience and productivity", ".">>),
       icon |-> Text(FEATURE_ICONS[((len + i) % 6) + 1])])

\* normalizedFeatures: six defaults for an empty list, then padded to six
PadFeatures(features) ==
  LET nf == IF Len(features) > 0 THEN features
            ELSE [i \in 1..6 |-> DefaultFeature(i - 1)]
  IN IF Len(nf) < 6
     THEN nf \o [i \in 1..(6 - Len(nf)) |-> AdditionalFeature(i - 1, Len(nf))]
     ELSE nf

\* Array.prototype.indexOf(nf[pos]), zero-based: strict equality, which is
\* identity for objects and arrays (an element is found at its own place)
\* and value equality for primitives (found at its first occurrence)
IndexOf(nf, pos) ==
  IF nf[pos].t \in {"obj", "arr"} THEN pos - 1
  ELSE (CHOOSE i \in 1..pos : nf[i] = nf[pos] /\ \A j \in 1..(i - 1) : nf[j] # nf[pos]) - 1

FeatureTemplate(title) ==
  <<"Leverage the power of", " ">> \o title \o <<" ", "to transform your business", ".">>

MapFeature(nf, pos) ==
  LET f == nf[pos]
      title == ToStr(Or(Get(f, "title"), f))
      featureContent ==
        String(Or(Get(f, "content"), Or(Get(f, "description"), Str(FeatureTemplate(title)))))
  IN Obj([title |-> Str(title),
          content |-> featureContent,
          icon |-> String(Or(Get(f, "icon"),
                             Text(FEATURE_ICONS[(IndexOf(nf, pos) % 6) + 1])))])

NormalizeFeatures(content) ==
  LET nf == PadFeatures(FeaturesFound(content))
  IN [i \in 1..Len(Take(nf, 6)) |-> MapFeature(nf, i)]

MapTier(tier) ==
  Obj([name |-> String(Or(Get(tier, "name"), Or(Get(tier, "title"), Text("Basic")))),
       price |-> String(Or(Get(tier, "price"), Text("$0"))),
       description |-> String(Or(Get(tier, "description"),
                                 Text("Get started with our basic plan"))),
       features |-> IF IsArray(Get(tier, "features"))
                    THEN Arr([i \in 1..Len(Get(tier, "features").v) |->
                                String(Get(tier, "features").v[i])])
                    ELSE Arr(<<>>)])

MapTestimonial(t) ==
  Obj([name |-> String(Or(Get(t, "name"), Text("Happy Customer"))),
       role |-> String(Or(Get(t, "role"), Or(Get(t, "position"), Text("Satisfied User")))),
       content |-> Str(Trim(ToStr(Or(Get(t, "content"),
                       Or(Get(t, "testimonial"),
                          Str(<<"This product has transformed our business", ".">>)))))),
       avatar |-> Null])

MapFaq(faq) ==
  Obj([question |-> Str(Trim(ToStr(Or(Get(faq, "question"), Text("How can we help?"))))),
       answer |-> Str(Trim(ToStr(Or(Get(faq, "answer"),
                      Str(<<"We're here to help you succeed", ".">>)))))])

\* a property read on a null element raises a TypeError
AnyNullish(a) == \E i \in 1..Len(a) : IsNullish(a[i])

\* the try block of POST raises before any store is called
NormalizeThrows(content) ==
  \/ IsNullish(content)
  \/ HeroSplitThrows(HeroTitleFound(content))
  \/ AnyNullish(Take(PadFeatures(FeaturesFound(content)), 6))
  \/ AnyNullish(PricingTiersFound(content))
  \/ AnyNullish(TestimonialsFound(content))
  \/ AnyNullish(FaqsFound(content))

\* normalizedContent
Normalize(content) ==
  [heroTitle |-> Arr(HeroPad(HeroSplit(HeroTitleFound(content)))),
   heroDescription |->
     String(ProbeScalar(content, "heroDescription", <<"hero", "Hero", "heroSection">>,
                        "heroDescription", Text("Transform your business with our solution"))),
   featuresTitle |->
     String(ProbeScalar(content, "featuresTitle",
                        <<"features", "Features", "featuresSection">>, "title",
                        Text("Features"))),
   features |-> Arr(NormalizeFeatures(content)),
   pricingTitle |->
     String(ProbeScalar(content, "pricingTitle", <<"pricing", "Pricing", "pricingSection">>,
                        "title", Text("Pricing"))),
   pricingDescription |->
     String(ProbeScalar(content, "pricingDescription",
                        <<"pricing", "Pricing", "pricingSection">>, "description",
                        Text("Choose the plan that's right for you"))),
   pricingTiers |->
     Arr([i \in 1..Len(PricingTiersFound(content)) |-> MapTier(PricingTiersFound(content)[i])]),
   testimonialsTitle |->
     String(ProbeScalar(content, "testimonialsTitle",
                        <<"testimonials", "Testimonials", "testimonialsSection">>, "title",
                        Text("What Our Customers Say"))),
   testimonials |->
     Arr([i \in 1..Len(TestimonialsFound(content)) |->
            MapTestimonial(TestimonialsFound(content)[i])]),
   faqTitle |->
     String(ProbeScalar(content, "faqTitle", <<"faq", "FAQ", "faqSection">>, "title",
                        Text("Frequently Asked Questions"))),
   faqs |-> Arr([i \in 1..Len(FaqsFound(content)) |-> MapFaq(FaqsFound(content)[i])]),
   ctaTitle |->
     String(ProbeScalar(content, "ctaTitle", <<"cta", "CTA", "ctaSection">>, "title",
                        Text("Get Started Today"))),
   ctaDescription |->
     String(ProbeScalar(content, "ctaDescription", <<"cta", "CTA", "ctaSection">>,
                        "description", Text("Join thousands of satisfied customers")))]

(***************************************************************************)
(* JSON text.  A text is a sequence of tokens: "{" and "}", the member     *)
(* list of an object (one token, v = its key -> value map), a literal      *)
(* (one token, v = its value) and whitespace.                              *)
(***************************************************************************)
LBrace == [t |-> "{", v |-> 0]
RBrace == [t |-> "}", v |-> 0]
Members(f) == [t |-> "members", v |-> f]
Lit(x) == [t |-> "lit", v |-> x]
Ws == [t |-> "ws", v |-> 0]

RECURSIVE TrimWsLeft(_)
TrimWsLeft(s) == IF s # <<>> /\ s[1] = Ws THEN TrimWsLeft(Tail(s)) ELSE s
RECURSIVE TrimWsRight(_)
TrimWsRight(s) ==
  IF s # <<>> /\ s[Len(s)] = Ws THEN TrimWsRight(SubSeq(s, 1, Len(s) - 1)) ELSE s
\* String.prototype.trim on a JSON text
TrimText(s) == TrimWsRight(TrimWsLeft(s))

\* JSON.parse(text) does not raise a SyntaxError
JSONValid(text) ==
  LET s == TrimText(text)
  IN \/ s = <<LBrace, RBrace>>
     \/ Len(s) = 3 /\ s[1] = LBrace /\ s[2].t = "members" /\ s[3] = RBrace
     \/ Len(s) = 1 /\ s[1].t = "lit"

\* JSON.parse(text) of a valid text
JSONParse(text) ==
  LET s == TrimText(text)
  IN IF Len(s) = 1 THEN s[1].v
     ELSE IF Len(s) = 2 THEN Obj(EmptyFields)
     ELSE Obj(s[2].v)

\* JSON.stringify(x) of an object or a literal
JSONStringify(x) ==
  IF x.t = "obj"
  THEN IF DOMAIN x.v = {} THEN <<LBrace, RBrace>> ELSE <<LBrace, Members(x.v), RBrace>>
  ELSE <<Lit(x)>>

(***************************************************************************)
(* The upstream event stream, as the symbols the network delivers:         *)
(*   DataPrefix      data:                                                 *)
(*   DeltaOpen(tok)  {"choices":[{"delta":{"content":"<tok>                *)
(*   DeltaClose      "}}]}                                                 *)
(*   DoneA, DoneB    [DO and NE]                                           *)
(*   NL              the line break(s) ending an event                     *)
(* A network chunk is any non-empty run of symbols.                        *)
(***************************************************************************)
DataPrefix == [t |-> "data:", v |-> 0]
DeltaOpen(tok) == [t |-> "delta", v |-> tok]
DeltaClose == [t |-> "close", v |-> 0]
DoneA == [t |-> "[DO", v |-> 0]
DoneB == [t |-> "NE]", v |-> 0]
NL == [t |-> "nl", v |-> 0]

RECURSIVE DeltaLines(_)
\* one data: event per token of the text
DeltaLines(text) ==
  IF text = <<>> THEN <<>>
  ELSE <<DataPrefix, DeltaOpen(text[1]), DeltaClose, NL>> \o DeltaLines(Tail(text))

EventStream(text, sentinel) ==
  DeltaLines(text) \o (IF sentinel THEN (<<DataPrefix, DoneA, DoneB, NL>>) ELSE <<>>)

RECURSIVE SplitLines(_)
\* chunk.split("\n")
SplitLines(chunk) ==
  IF \A i \in 1..Len(chunk) : chunk[i] # NL THEN <<chunk>>
  ELSE LET i == CHOOSE j \in 1..Len(chunk) :
                  chunk[j] = NL /\ \A m \in 1..(j - 1) : chunk[m] # NL
       IN <<SubSeq(chunk, 1, i - 1)>> \o SplitLines(SubSeq(chunk, i + 1, Len(chunk)))

\* frames of the response stream
\* sseFormat({ log }) pushed by POST itself
Log(m) == [k |-> "log", from |-> "post", msg |-> m, gid |-> Undefined, did |-> Undefined]
\* sseFormat({ log: "GPT Stream Message: " + m }) pushed through onLog
GptLog(m) == [k |-> "log", from |-> "gpt", msg |-> m, gid |-> Undefined, did |-> Undefined]
\* sseFormat({ generatedId, dynamicId })
IdsFrame(g, d) == [k |-> "ids", from |-> "post", msg |-> "", gid |-> g, did |-> d]
\* data: [DONE]
DoneFrame == [k |-> "done", from |-> "post", msg |-> "[DONE]", gid |-> Undefined, did |-> Undefined]

RECURSIVE ProcessLines(_, _, _)
\* the for loop over the lines of one chunk: the text accumulated, the logs
\* pushed and whether the sentinel line was met (the loop breaks there)
ProcessLines(lines, acc, logs) ==
  IF lines = <<>> THEN [acc |-> acc, logs |-> logs, sentinel |-> FALSE]
  ELSE LET line == lines[1]
       IN IF line = <<>> \/ line[1] # DataPrefix
          THEN ProcessLines(Tail(lines), acc, logs)
          ELSE IF Tail(line) = <<DoneA, DoneB>>
          THEN [acc |-> acc, logs |-> logs, sentinel |-> TRUE]
          ELSE IF Len(line) = 3 /\ line[2].t = "delta" /\ line[3] = DeltaClose
          THEN ProcessLines(Tail(lines), acc \o <<line[2].v>>,
                            Append(logs, GptLog("Received chunk")))
          ELSE ProcessLines(Tail(lines), acc, logs)

\* the fallback object streamChatCompletion sends when the text does not parse
FallbackContent ==
  Obj([heroTitle |-> Text("AI Developer Filter"),
       heroDescription |-> Text("A powerful tool to help companies find the right AI developers"),
       ctaTitle |-> Text("Start Filtering Today"),
       ctaDescription |-> Text("Find the perfect AI developer for your team"),
       features |-> Arr(<<Text("Smart candidate filtering"), Text("AI skill assessment"),
                          Text("Experience verification"), Text("Cultural fit analysis")>>)])

(***************************************************************************)
(* The stores                                                              *)
(***************************************************************************)
PREVIEW_PREFIX == "preview_landing_page:"
DYNAMIC_PREFIX == "dynamic_landing_page:"
\* 60 * 60 * 24 * 30 seconds
THIRTY_DAYS == 2592000
\* no ex option: the key does not expire
NO_EXPIRY == 0

requiredArrays ==
  [heroTitle |-> 3, features |-> 4, pricingTiers |-> 2, testimonials |-> 3, faqs |-> 4]

\* !value || value.trim().length === 0 (or value has no trim: a TypeError)
BlankField(x) == ~Truthy(x) \/ x.t # "str" \/ Trim(x.v) = <<>>

\* validateContent with the checks of the array lengths only
ValidateThrows_ArraysOnly(content) ==
  \E f \in DOMAIN requiredArrays :
    ~IsArray(content[f]) \/ Len(content[f].v) < requiredArrays[f]

\* validateContent(content) throws
ValidateThrows(content) ==
  \/ \E f \in DOMAIN requiredArrays :
       ~IsArray(content[f]) \/ Len(content[f].v) < requiredArrays[f]
  \/ \E f \in {"heroDescription", "featuresTitle", "pricingTitle", "pricingDescription",
               "testimonialsTitle", "faqTitle", "ctaTitle", "ctaDescription"} :
       BlankField(content[f])
  \/ \E i \in 1..Len(content.pricingTiers.v) :
       LET tier == content.pricingTiers.v[i]
       IN \/ BlankField(Get(tier, "name"))
          \/ BlankField(Get(tier, "price"))
          \/ BlankField(Get(tier, "description"))
          \/ ~IsArray(Get(tier, "features"))
          \/ Len(Get(tier, "features").v) = 0
  \/ \E i \in 1..Len(content.testimonials.v) :
       LET tm == content.testimonials.v[i]
       IN \/ BlankField(Get(tm, "name"))
          \/ BlankField(Get(tm, "role"))
          \/ BlankField(Get(tm, "content"))
  \/ \E i \in 1..Len(content.faqs.v) :
       LET faq == content.faqs.v[i]
       IN BlankField(Get(faq, "question")) \/ BlankField(Get(faq, "answer"))

\* the record createPageContent stores: { id, ...payload }
PreviewRecord(id, ideaVal, n) ==
  [id |-> id, idea |-> ideaVal,
   heroTitle |-> n.heroTitle, heroDescription |-> n.heroDescription,
   featuresTitle |-> n.featuresTitle, features |-> n.features,
   pricingTitle |-> n.pricingTitle, pricingDescription |-> n.pricingDescription,
   pricingTiers |-> n.pricingTiers,
   testimonialsTitle |-> n.testimonialsTitle, testimonials |-> n.testimonials,
   faqTitle |-> n.faqTitle, faqs |-> n.faqs,
   ctaTitle |-> n.ctaTitle, ctaDescription |-> n.ctaDescription]

\* feature.icon || FEATURE_ICONS[index % FEATURE_ICONS.length]
DynamicFeature(f, index) ==
  Obj([title |-> Get(f, "title"), content |-> Get(f, "content"),
       icon |-> Or(Get(f, "icon"), Text(FEATURE_ICONS[(index % 6) + 1]))])

\* the content createDynamicLandingPage builds from POST's data and a fresh id
DynamicRecord(id, n) ==
  [id |-> id, logoUrl |-> Null,
   heroTitle |-> n.heroTitle,
   heroDescription |-> Or(n.heroDescription, Str(<<>>)),
   featuresTitle |-> Or(n.featuresTitle, Str(<<>>)),
   features |-> Arr([i \in 1..Len(n.features.v) |-> DynamicFeature(n.features.v[i], i - 1)]),
   pricingTitle |-> Or(n.pricingTitle, Str(<<>>)),
   pricingDescription |-> Or(n.pricingDescription, Str(<<>>)),
   pricingTiers |-> n.pricingTiers,
   testimonialsTitle |-> Or(n.testimonialsTitle, Str(<<>>)),
   testimonials |-> n.testimonials,
   faqTitle |-> Or(n.faqTitle, Str(<<>>)),
   faqs |-> n.faqs,
   ctaTitle |-> Or(n.ctaTitle, Str(<<>>)),
   ctaDescription |-> Or(n.ctaDescription, Str(<<>>))]

\* uuidv4(): the n-th identifier drawn
Uuid(n) == Str(<<"uuid", NumText(n)>>)

\* redis.set(key, value, { ex })
RedisSet(store, key, value, ex) ==
  [k \in DOMAIN store \cup {key} |->
     IF k = key THEN [value |-> value, ex |-> ex] ELSE store[k]]

(***************************************************************************)
(* State                                                                   *)
(***************************************************************************)
VARIABLES
  body,            \* the request body req.json() yields ("unreadable": it throws)
  idea,            \* const { idea } = await req.json()
  apiKey,          \* OPENAI_API_KEY is set
  response,        \* "none" | "stream" | "error500"
  frames,          \* what was enqueued on the response stream, in order
  closed,          \* the response stream's controller was closed
  lateFrame,       \* an enqueue was attempted on the closed response stream
  pc,              \* POST: "idle" | "reading" | "createPreview" | "createDynamic" | "done"
  accumulatedText, \* POST's accumulatedText
  normalized,      \* POST's normalizedContent
  previewId,       \* the id createPageContent drew
  dynamicId,       \* the id createDynamicLandingPage drew
  cpc,             \* streamChatCompletion: "off" | "fetching" | "errText" | "reading" | "ended"
  fetches,         \* requests made to the completion API
  upstream,        \* the whole event stream of the upstream response
  net,             \* the part of it not yet delivered
  clientText,      \* streamChatCompletion's accumulatedText
  sawSentinel,     \* the read loop met the [DONE] line
  innerQ,          \* chunks enqueued on the client's stream, not yet read
  innerClosed,     \* the client's stream controller was closed
  keepAlive,       \* the keep-alive interval is armed
  pings,           \* keep-alive callbacks run
  latePing,        \* a keep-alive callback ran on the closed client stream
  redis,           \* the key-value store: key -> [value, ex]
  nextId,          \* uuids drawn so far + 1
  storeFailed,     \* a redis.set of this request threw
  api,             \* the last call of a store function, and what it gave
  page,            \* the generator page's handleGenerate
  viewer           \* the page /dynamic-lp/[slug] and its loadContent effect

postVars == <<body, idea, response, frames, closed, lateFrame, pc, accumulatedText,
              normalized, previewId, dynamicId>>
clientVars == <<cpc, fetches, upstream, net, clientText, sawSentinel, innerQ,
                innerClosed, keepAlive, pings, latePing>>
storeVars == <<redis, nextId, storeFailed>>
vars == <<postVars, clientVars, storeVars, apiKey, api, page, viewer>>

NoContent == [k \in {} |-> Undefined]
EmptyStore == [k \in {} |-> [value |-> <<>>, ex |-> NO_EXPIRY]]

Unreadable == [t |-> "unreadable", v |-> 0]

Init ==
  /\ body = Undefined
  /\ idea = Undefined
  /\ apiKey \in BOOLEAN
  /\ response = "none"
  /\ frames = <<>>
  /\ closed = FALSE
  /\ lateFrame = FALSE
  /\ pc = "idle"
  /\ accumulatedText = <<>>
  /\ normalized = NoContent
  /\ previewId = Undefined
  /\ dynamicId = Undefined
  /\ cpc = "off"
  /\ fetches = 0
  /\ upstream = <<>>
  /\ net = <<>>
  /\ clientText = <<>>
  /\ sawSentinel = FALSE
  /\ innerQ = <<>>
  /\ innerClosed = FALSE
  /\ keepAlive = FALSE
  /\ pings = 0
  /\ latePing = FALSE
  /\ redis = EmptyStore
  /\ nextId = 1
  /\ storeFailed = FALSE
  /\ api = [fn |-> "none", key |-> <<"", Undefined>>, found |-> FALSE, wrote |-> FALSE,
            read |-> "none", result |-> [r |-> "none", v |-> Undefined],
            made |-> [k \in {} |-> Undefined]]
  /\ page = [pc |-> "idle", stream |-> <<>>, net |-> <<>>, buffer |-> <<>>, logs |-> <<>>,
             generatedIds |-> Undefined, pushed |-> Undefined,
             isGenerating |-> FALSE, isGeneratingIdea |-> FALSE]
  /\ viewer = [pc |-> "unmounted", version |-> 0, slug |-> Undefined, loadAttempts |-> 0,
               content |-> Undefined, error |-> Null, isLoading |-> TRUE,
               waits |-> <<>>, loads |-> 0]

(***************************************************************************)
(* POST /api/generator: the request arrives                                *)
(***************************************************************************)
\* the guard without its trim(): a blank idea passes
IdeaMissing_NoTrim(i) == ~Truthy(i)

\* !idea || !idea.trim()
IdeaMissing(i) == ~Truthy(i) \/ (i.t = "str" /\ Trim(i.v) = <<>>)

\* controller.enqueue on the response stream: a TypeError once it is closed
Push(fs) ==
  IF closed THEN /\ lateFrame' = TRUE
                 /\ frames' = frames
  ELSE /\ frames' = frames \o fs
       /\ lateFrame' = lateFrame

\* the finally block without its [DONE] frame
FinishFrames_NoDone(fs) ==
  /\ Push(fs)
  /\ closed' = TRUE
  /\ pc' = "done"

\* the finally block: enqueue [DONE], close
FinishFrames(fs) ==
  /\ Push(fs \o <<DoneFrame>>)
  /\ closed' = TRUE
  /\ pc' = "done"

\* the catch of the inner try, "Generation complete!", then finally
FailFrames(fs) ==
  FinishFrames(fs \o <<Log("Error parsing content: "), Log("Generation complete!")>>)

POST(b) ==
  /\ pc = "idle"
  /\ body' = b
  \* req.json() rejects, the body has no idea property to read, or idea.trim
  \* is not a function: start() throws, so does the constructor
  /\ IF b = Unreadable \/ IsNullish(b)
        \/ (Truthy(Get(b, "idea")) /\ Get(b, "idea").t # "str")
     THEN \* req.json(), the destructuring or start() throws: the outer catch
          /\ response' = "error500"
          /\ pc' = "done"
          /\ UNCHANGED <<idea, frames, closed, lateFrame, clientVars>>
     ELSE /\ idea' = Get(b, "idea")
          /\ response' = "stream"
          /\ IF IdeaMissing(Get(b, "idea"))
             THEN /\ frames' = <<Log("No idea provided."), DoneFrame>>
                  /\ closed' = TRUE
                  /\ pc' = "done"
                  /\ UNCHANGED <<lateFrame, clientVars>>
             ELSE \* the async body up to its first await, with the start()
                  \* of streamChatCompletion up to its own
                  /\ frames' = <<Log("Starting generation with idea: "),
                                 Log("Request context: "),
                                 Log("Prepared GPT messages: "),
                                 Log("Invoking GPT in streaming mode..."),
                                 IF apiKey
                                 THEN GptLog("Initiating streaming fetch to OpenAI...")
                                 ELSE GptLog("No OPENAI_API_KEY found. Please provide it in your env.")>>
                  /\ cpc' = IF apiKey THEN "fetching" ELSE "ended"
                  /\ innerClosed' = ~apiKey
                  /\ fetches' = IF apiKey THEN fetches + 1 ELSE fetches
                  /\ pc' = "reading"
                  /\ UNCHANGED <<closed, lateFrame, upstream, net, clientText, sawSentinel,
                                 innerQ, keepAlive, pings, latePing>>
  /\ UNCHANGED <<accumulatedText, normalized, previewId, dynamicId, storeVars, apiKey, api, page, viewer>>

(***************************************************************************)
(* streamChatCompletion                                                    *)
(***************************************************************************)
\* the upstream answers: an HTTP error, a response without a body, or an
\* event stream
Answer(kind, bytes) == [kind |-> kind, bytes |-> bytes]

FetchResolve(up) ==
  /\ cpc = "fetching"
  /\ CASE up.kind = "httpError" ->
            /\ cpc' = "errText"
            /\ UNCHANGED <<frames, lateFrame, innerClosed, keepAlive, upstream, net>>
       [] up.kind = "noBody" ->
            /\ Push(<<GptLog("No reader available from OpenAI response.")>>)
            /\ innerClosed' = TRUE
            /\ cpc' = "ended"
            /\ UNCHANGED <<keepAlive, upstream, net>>
       [] OTHER ->
            /\ keepAlive' = TRUE
            /\ upstream' = up.bytes
            /\ net' = up.bytes
            /\ cpc' = "reading"
            /\ UNCHANGED <<frames, lateFrame, innerClosed>>
  /\ UNCHANGED <<body, idea, response, closed, pc, accumulatedText, normalized, previewId,
                 dynamicId, fetches, clientText, sawSentinel, innerQ, pings, latePing,
                 storeVars, apiKey, api, page, viewer>>

\* fetch() rejects: the catch logs and closes
FetchReject ==
  /\ cpc = "fetching"
  /\ Push(<<GptLog("Error streaming from OpenAI: ")>>)
  /\ innerClosed' = TRUE
  /\ cpc' = "ended"
  /\ UNCHANGED <<body, idea, response, closed, pc, accumulatedText, normalized, previewId,
                 dynamicId, fetches, upstream, net, clientText, sawSentinel, innerQ,
                 keepAlive, pings, latePing, storeVars, apiKey, api, page, viewer>>

\* await response.text() of a non-OK response settles
ErrorText ==
  /\ cpc = "errText"
  /\ \E read \in BOOLEAN :
       Push(<<IF read THEN GptLog("OpenAI error. Status: ")
              ELSE GptLog("Error streaming from OpenAI: ")>>)
  /\ innerClosed' = TRUE
  /\ cpc' = "ended"
  /\ UNCHANGED <<body, idea, response, closed, pc, accumulatedText, normalized, previewId,
                 dynamicId, fetches, upstream, net, clientText, sawSentinel, innerQ,
                 keepAlive, pings, latePing, storeVars, apiKey, api, page, viewer>>

ContentChunk(text) == [k |-> "content", text |-> text]
\* what the [DONE] branch enqueues: the text if it parses, else the fallback
SentinelChunk(text) ==
  IF JSONValid(TrimText(text)) THEN ContentChunk(TrimText(text))
  ELSE ContentChunk(JSONStringify(FallbackContent))

SentinelLogs(text) ==
  <<GptLog("OpenAI streaming ended."), GptLog("Accumulated text: ")>>
  \o (IF JSONValid(TrimText(text)) THEN <<>>
      ELSE <<GptLog("Error parsing accumulated text: ")>>)

\* reader.read() yields the next n symbols
ClientReadChunk(n) ==
  /\ cpc = "reading"
  /\ n \in 1..Len(net)
  /\ LET r == ProcessLines(SplitLines(SubSeq(net, 1, n)), clientText, <<>>)
     IN /\ clientText' = r.acc
        /\ IF r.sentinel
           THEN /\ Push(r.logs \o SentinelLogs(r.acc)
                        \o <<GptLog("Completed reading from OpenAI. Closing stream...")>>)
                /\ innerQ' = Append(innerQ, SentinelChunk(r.acc))
                /\ sawSentinel' = TRUE
                /\ keepAlive' = FALSE
                /\ innerClosed' = TRUE
                /\ cpc' = "ended"
                /\ net' = <<>>
           ELSE /\ Push(r.logs)
                /\ net' = SubSeq(net, n + 1, Len(net))
                /\ UNCHANGED <<innerQ, sawSentinel, keepAlive, innerClosed, cpc>>
  /\ UNCHANGED <<body, idea, response, closed, pc, accumulatedText, normalized, previewId,
                 dynamicId, fetches, upstream, pings, latePing, storeVars, apiKey, api, page, viewer>>

\* reader.read() yields done: the upstream ended without the sentinel
ClientReadEnd ==
  /\ cpc = "reading"
  /\ net = <<>>
  /\ Push(<<GptLog("Completed reading from OpenAI. Closing stream...")>>)
  /\ keepAlive' = FALSE
  /\ innerClosed' = TRUE
  /\ cpc' = "ended"
  /\ UNCHANGED <<body, idea, response, closed, pc, accumulatedText, normalized, previewId,
                 dynamicId, fetches, upstream, net, clientText, sawSentinel, innerQ, pings,
                 latePing, storeVars, apiKey, api, page, viewer>>

\* reader.read() rejects: the catch logs and closes; clearInterval is skipped
ClientReadError ==
  /\ cpc = "reading"
  /\ Push(<<GptLog("Error streaming from OpenAI: ")>>)
  /\ innerClosed' = TRUE
  /\ cpc' = "ended"
  /\ UNCHANGED <<body, idea, response, closed, pc, accumulatedText, normalized, previewId,
                 dynamicId, fetches, upstream, net, clientText, sawSentinel, innerQ,
                 keepAlive, pings, latePing, storeVars, apiKey, api, page, viewer>>

\* the setInterval callback: controller.enqueue("data: [ping]\n\n")
KeepAliveTick ==
  /\ keepAlive
  /\ pings < MaxPings
  /\ pings' = pings + 1
  /\ IF innerClosed
     THEN /\ latePing' = TRUE
          /\ UNCHANGED innerQ
     ELSE /\ innerQ' = Append(innerQ, [k |-> "ping", text |-> <<>>])
          /\ UNCHANGED latePing
  /\ UNCHANGED <<postVars, cpc, fetches, upstream, net, clientText, sawSentinel,
                 innerClosed, keepAlive, storeVars, apiKey, api, page, viewer>>

(***************************************************************************)
(* POST /api/generator: the async body                                     *)
(***************************************************************************)
\* the [ping] chunk falling through to the raw branch of the catch
PostRead_PingAsRaw ==
  /\ pc = "reading"
  /\ innerQ # <<>>
  /\ innerQ' = Tail(innerQ)
  /\ IF innerQ[1].k = "ping"
     THEN /\ Push(<<Log("Processing chunk #"), Log("Added raw chunk")>>)
          /\ accumulatedText' = accumulatedText \o <<Lit(Text("[ping]"))>>
     ELSE /\ Push(<<Log("Processing chunk #"), Log("Added content chunk")>>)
          /\ accumulatedText' = accumulatedText \o innerQ[1].text
  /\ UNCHANGED <<body, idea, response, closed, pc, normalized, previewId, dynamicId, cpc,
                 fetches, upstream, net, clientText, sawSentinel, innerClosed, keepAlive,
                 pings, latePing, storeVars, apiKey, api, page, viewer>>

\* reader.read() on the client's stream yields a chunk
PostRead ==
  /\ pc = "reading"
  /\ innerQ # <<>>
  /\ innerQ' = Tail(innerQ)
  /\ IF innerQ[1].k = "ping"
     THEN /\ Push(<<Log("Processing chunk #"), Log("Received ping")>>)
          /\ UNCHANGED accumulatedText
     ELSE /\ Push(<<Log("Processing chunk #"), Log("Added content chunk")>>)
          /\ accumulatedText' = accumulatedText \o innerQ[1].text
  /\ UNCHANGED <<body, idea, response, closed, pc, normalized, previewId, dynamicId, cpc,
                 fetches, upstream, net, clientText, sawSentinel, innerClosed, keepAlive,
                 pings, latePing, storeVars, apiKey, api, page, viewer>>

\* the logs pushed inside the try before the normalizer raises
LogsBeforeThrow(content) ==
  IF IsNullish(content) THEN <<>>
  ELSE <<Log("Raw GPT response structure: "), Log("Raw GPT response content: "),
         Log("Content structure validated. Processing features..."),
         Log("Initial data state: ")>>
       \o (IF HeroSplitThrows(HeroTitleFound(content)) THEN <<>>
           ELSE <<Log("Normalized data: ")>>)

\* reader.read() yields done: parse, normalize, call createPageContent
PostReadEnd ==
  /\ pc = "reading"
  /\ innerQ = <<>>
  /\ innerClosed
  /\ LET head == <<Log("Stream complete. Total chunks: "),
                   Log("Accumulated text length: "),
                   Log("Attempting to parse complete content...")>>
     IN IF ~JSONValid(accumulatedText)
        THEN /\ FailFrames(head)
             /\ UNCHANGED <<normalized, previewId, nextId>>
        ELSE LET content == JSONParse(accumulatedText)
             IN IF NormalizeThrows(content)
                THEN /\ FailFrames(head \o LogsBeforeThrow(content))
                     /\ UNCHANGED <<normalized, previewId, nextId>>
                ELSE /\ Push(head \o LogsBeforeThrow(content)
                             \o <<Log("Creating record in preview store...")>>)
                     /\ normalized' = Normalize(content)
                     /\ previewId' = Uuid(nextId)
                     /\ nextId' = nextId + 1
                     /\ pc' = "createPreview"
                     /\ UNCHANGED closed
  /\ UNCHANGED <<body, idea, response, accumulatedText, dynamicId, clientVars, redis,
                 storeFailed, apiKey, api, page, viewer>>

\* createPageContent's redis.set settles; then createDynamicLandingPage
\* validates and calls redis.set
PreviewSet(ok) ==
  /\ pc = "createPreview"
  /\ IF ~ok
     THEN /\ storeFailed' = TRUE
          /\ FailFrames(<<>>)
          /\ UNCHANGED <<redis, dynamicId, nextId>>
     ELSE /\ redis' = RedisSet(redis, <<PREVIEW_PREFIX, previewId>>,
                               JSONStringify(Obj(PreviewRecord(previewId, idea, normalized))),
                               THIRTY_DAYS)
          /\ dynamicId' = Uuid(nextId)
          /\ nextId' = nextId + 1
          /\ UNCHANGED storeFailed
          /\ IF ValidateThrows(DynamicRecord(Uuid(nextId), normalized))
             THEN FailFrames(<<Log("Creating record in dynamic store...")>>)
             ELSE /\ Push(<<Log("Creating record in dynamic store...")>>)
                  /\ pc' = "createDynamic"
                  /\ UNCHANGED closed
  /\ UNCHANGED <<body, idea, response, accumulatedText, normalized, previewId, clientVars,
                 apiKey, api, page, viewer>>

\* the ids frame sent without regard to the outcome of the write
DynamicSet_IdsAnyway(ok) ==
  /\ pc = "createDynamic"
  /\ IF ~ok
     THEN /\ storeFailed' = TRUE
          /\ UNCHANGED redis
     ELSE /\ redis' = RedisSet(redis, <<DYNAMIC_PREFIX, dynamicId>>,
                               JSONStringify(Obj(DynamicRecord(dynamicId, normalized))),
                               NO_EXPIRY)
          /\ UNCHANGED storeFailed
  /\ FinishFrames(<<IdsFrame(previewId, dynamicId), Log("Generation complete!")>>)
  /\ UNCHANGED <<body, idea, response, accumulatedText, normalized, previewId, dynamicId,
                 clientVars, nextId, apiKey, api, page, viewer>>

\* createDynamicLandingPage's redis.set settles; the ids frame, then finally
DynamicSet(ok) ==
  /\ pc = "createDynamic"
  /\ IF ~ok
     THEN /\ storeFailed' = TRUE
          /\ FailFrames(<<>>)
          /\ UNCHANGED redis
     ELSE /\ redis' = RedisSet(redis, <<DYNAMIC_PREFIX, dynamicId>>,
                               JSONStringify(Obj(DynamicRecord(dynamicId, normalized))),
                               NO_EXPIRY)
          /\ UNCHANGED storeFailed
          /\ FinishFrames(<<Log("Successfully stored landing pages in both stores!"),
                            Log("Preview ID: "), Log("Dynamic ID: "),
                            IdsFrame(previewId, dynamicId),
                            Log("Generation complete!")>>)
  /\ UNCHANGED <<body, idea, response, accumulatedText, normalized, previewId, dynamicId,
                 clientVars, nextId, apiKey, api, page, viewer>>

(***************************************************************************)
(* The pipeline under every outcome of the upstream and the store, with    *)
(* the network free to cut the event stream anywhere.                      *)
(***************************************************************************)
SmallAnswers ==
  {Answer("httpError", <<>>), Answer("noBody", <<>>)}
  \cup {Answer("ok", EventStream(text, s)) : text \in {<<>>, <<LBrace, RBrace>>, <<LBrace>>, <<Ws>>}, s \in BOOLEAN}

Next ==
  \/ \E b \in {Unreadable, Null, Obj(EmptyFields)}
              \cup {Obj([idea |-> i]) :
                      i \in {Str(<<>>), Str(<<" ">>), Str(<<" ", " ">>), Str(<<"app">>),
                             Str(<<" ", "app", " ">>), Null, Num(0), Num(5), Bool(FALSE)}} : POST(b)
  \/ \E up \in SmallAnswers : FetchResolve(up)
  \/ FetchReject
  \/ ErrorText
  \/ \E n \in 1..Len(net) : ClientReadChunk(n)
  \/ ClientReadEnd
  \/ ClientReadError
  \/ KeepAliveTick
  \/ PostRead
  \/ PostReadEnd
  \/ \E ok \in BOOLEAN : PreviewSet(ok)
  \/ \E ok \in BOOLEAN : DynamicSet(ok)

Spec == Init /\ [][Next]_vars

(***************************************************************************)
(* The pipeline on a wide range of upstream documents, with the upstream   *)
(* and the store answering normally and the event stream in one chunk.     *)
(***************************************************************************)
SeqsUpTo(P, n) == UNION {[1..m -> P] : m \in 0..n}

GoodFeature ==
  Obj([title |-> Text("Track orders"), content |-> Text("See every order live"),
       icon |-> Text("lock")])
GoodTier ==
  Obj([name |-> Text("Team"), price |-> Text("$49/month"),
       description |-> Text("For small teams"),
       features |-> Arr(<<Text("5 seats"), Num(3)>>)])
GoodTestimonial ==
  Obj([name |-> Text("Ada Park"), role |-> Text("CTO"),
       content |-> Str(<<" ", "Saved us a week", ".", " ">>)])
GoodFaq ==
  Obj([question |-> Text("Is it secure?"), answer |-> Text("Yes")])

\* a complete, well-formed document
FullDoc ==
  [heroTitle |-> Arr(<<Text("Plan"), Text("Ship"), Text("Grow")>>),
   heroDescription |-> Text("Ship faster with less work"),
   featuresTitle |-> Text("Why teams pick us"),
   features |-> Arr([i \in 1..6 |-> GoodFeature]),
   pricingTitle |-> Text("Simple pricing"),
   pricingDescription |-> Text("Pay as you grow"),
   pricingTiers |-> Arr(<<GoodTier, GoodTier>>),
   testimonialsTitle |-> Text("Loved by teams"),
   testimonials |-> Arr([i \in 1..3 |-> GoodTestimonial]),
   faqTitle |-> Text("Questions"),
   faqs |-> Arr([i \in 1..4 |-> GoodFaq]),
   ctaTitle |-> Text("Start now"),
   ctaDescription |-> Text("Free for 14 days")]

Bases == {EmptyFields, FullDoc}

\* base with content[key] = val
TopDoc(base, key, val) ==
  Obj([k \in DOMAIN base \cup {key} |-> IF k = key THEN val ELSE base[k]])

\* base without content[key], with content[sec] = { [sub]: val }
NestedDoc(base, key, sec, sub, val) ==
  Obj([k \in (DOMAIN base \ {key}) \cup {sec} |->
         IF k = sec THEN Obj([kk \in {sub} |-> val]) ELSE base[k]])

DottedTitle == Str(<<"Build fast", ".", " ", "Ship faster", ".", " ", "Grow forever", ".">>)

HeroTitles ==
  {Arr(a) : a \in SeqsUpTo({Text("Fast"), Str(<<"Fast", ".", " ", "Easy">>), Num(5)},
                           3 + MaxOver)}
  \cup {Arr(<<DottedTitle>>), Arr(<<Str(<<".">>)>>), Arr(<<Null>>),
        Arr(<<Str(<<"A", ".", "B", ".", "C", ".", "D">>)>>),
        Arr(<<Arr(<<Text(".")>>)>>), Arr(<<Arr(<<Text("Fast")>>)>>),
        Text("AI Developer Filter"), Null}

FeatureLists ==
  {Arr(a) : a \in SeqsUpTo({Text("Speed"), Text("Security")}, 6 + MaxOver)}
  \cup {Arr(a) : a \in SeqsUpTo({Text("Speed"), GoodFeature, Null, Num(0),
                                 Obj([description |-> Text("Fast"), icon |-> Arr(<<>>)])},
                                1 + MaxOver)}
  \cup {Text("Speed"), Null}

TierLists ==
  {Arr(a) : a \in SeqsUpTo({GoodTier, Obj([title |-> Text("Solo")]), Null,
                            Obj([name |-> Text(" "), price |-> Num(9),
                                 features |-> Arr(<<Text("1 seat")>>)])},
                           2 + MaxOver)}
  \cup {Text("Free"), Null}

TestimonialLists ==
  {Arr(a) : a \in SeqsUpTo({GoodTestimonial,
                            Obj([position |-> Text("CEO"), testimonial |-> Text("Great")]),
                            Obj([name |-> Num(7), content |-> Str(<<" ">>)])},
                           3 + MaxOver)}
  \cup {Arr(<<Null>>), Text("Great"), Null}

FaqLists ==
  {Arr(a) : a \in SeqsUpTo({GoodFaq, Obj(EmptyFields)}, 4 + MaxOver)}
  \cup {Arr(<<Null>>), Arr(<<Obj([question |-> Str(<<" ">>), answer |-> Bool(TRUE)])>>),
        Text("None"), Null}

\* where each list may sit: its key and the three sections probed
ListPlaces ==
  [heroTitle |-> <<"hero", "Hero", "heroSection">>,
   features |-> <<"features", "Features", "featuresSection">>,
   pricingTiers |-> <<"pricing", "Pricing", "pricingSection">>,
   testimonials |-> <<"testimonials", "Testimonials", "testimonialsSection">>,
   faqs |-> <<"faq", "FAQ", "faqSection">>]

ListValues ==
  [heroTitle |-> HeroTitles, features |-> FeatureLists, pricingTiers |-> TierLists,
   testimonials |-> TestimonialLists, faqs |-> FaqLists]

\* where each scalar may sit: the sections probed and the key inside them
ScalarPlaces ==
  [heroDescription |-> <<"hero", "Hero", "heroSection", "heroDescription">>,
   featuresTitle |-> <<"features", "Features", "featuresSection", "title">>,
   pricingTitle |-> <<"pricing", "Pricing", "pricingSection", "title">>,
   pricingDescription |-> <<"pricing", "Pricing", "pricingSection", "description">>,
   testimonialsTitle |-> <<"testimonials", "Testimonials", "testimonialsSection", "title">>,
   faqTitle |-> <<"faq", "FAQ", "faqSection", "title">>,
   ctaTitle |-> <<"cta", "CTA", "ctaSection", "title">>,
   ctaDescription |-> <<"cta", "CTA", "ctaSection", "description">>]

\* the documents the upstream model returns here: a base with one field
\* set, at the top level or inside one of its sections
RichDocs ==
  {Obj(b) : b \in Bases}
  \cup {Lit(Null).v, Num(5)}
  \cup UNION {{TopDoc(b, key, val) : b \in Bases, val \in ListValues[key]} :
              key \in DOMAIN ListValues}
  \cup UNION {{NestedDoc(b, key, ListPlaces[key][i], key, val) :
                 b \in Bases, i \in 1..3, val \in {v \in ListValues[key] :
                                                    v.t # "arr" \/ Len(v.v) <= 1 + MaxOver}} :
              key \in DOMAIN ListValues}
  \cup UNION {{TopDoc(b, key, val) : b \in Bases, val \in {Text("Custom text"), Str(<<" ">>), Str(<<>>), Num(5), Num(0),
                             Bool(TRUE), Null, Arr(<<>>), Arr(<<Num(1), Num(2)>>),
                             Obj(EmptyFields)}} :
              key \in DOMAIN ScalarPlaces}
  \cup UNION {{NestedDoc(b, key, ScalarPlaces[key][i], ScalarPlaces[key][4], val) :
                 b \in Bases, i \in 1..3, val \in {Text("Custom text"), Str(<<" ">>), Num(5)}} :
              key \in DOMAIN ScalarPlaces}

GoodBody == Obj([idea |-> Text("app")])

InitNorm == Init /\ apiKey

NextNorm ==
  \/ POST(GoodBody)
  \/ \E d \in RichDocs : FetchResolve(Answer("ok", EventStream(JSONStringify(d), TRUE)))
  \/ ClientReadChunk(Len(net))
  \/ PostRead
  \/ PostReadEnd
  \/ PreviewSet(TRUE)
  \/ DynamicSet(TRUE)

SpecNorm == InitNorm /\ [][NextNorm]_vars

(***************************************************************************)
(* The stores' functions, called directly: the preview store               *)
(* (createPageContent, getPageContent), the dynamic store                  *)
(* (createDynamicLandingPage, getDynamicLandingPage) and the revision of   *)
(* the dynamic store's create that reads its write back.                   *)
(***************************************************************************)
\* creates made in one run
MaxCreates == 2

\* fetches of the first viewer page followed in one page load
MaxFetches == 4

\* load cycles of the viewer page followed (the first and the Try Again ones)
MaxLoads == 2

Returned(v) == [r |-> "returns", v |-> v]
Threw(m) == [r |-> "throws", v |-> Text(m)]

\* redis.get(key), settled in mode "text" with the stored text as it is, in
\* mode "deserialized" with the value the client parsed out of it (in mode
\* "rejects" it settles with an error and the callers do not get here)
RedisGet(store, key, mode) ==
  IF key \notin DOMAIN store THEN Null
  ELSE IF mode = "deserialized" /\ JSONValid(store[key].value)
       THEN JSONParse(store[key].value)
       ELSE Str(store[key].value)

\* { id, ...payload }
Spread(id, payload) ==
  Obj([k \in DOMAIN payload.v \cup {"id"} |->
         IF k \in DOMAIN payload.v THEN payload.v[k] ELSE id])

\* the content createDynamicLandingPage builds from its argument
DynamicContent(data, id) ==
  [id |-> id,
   logoUrl |-> Or(Get(data, "logoUrl"), Null),
   heroTitle |-> Or(Get(data, "heroTitle"), Arr(<<>>)),
   heroDescription |-> Or(Get(data, "heroDescription"), Str(<<>>)),
   featuresTitle |-> Or(Get(data, "featuresTitle"), Str(<<>>)),
   features |-> Or(Get(data, "features"), Arr(<<>>)),
   pricingTitle |-> Or(Get(data, "pricingTitle"), Str(<<>>)),
   pricingDescription |-> Or(Get(data, "pricingDescription"), Str(<<>>)),
   pricingTiers |-> Or(Get(data, "pricingTiers"), Arr(<<>>)),
   testimonialsTitle |-> Or(Get(data, "testimonialsTitle"), Str(<<>>)),
   testimonials |-> Or(Get(data, "testimonials"), Arr(<<>>)),
   faqTitle |-> Or(Get(data, "faqTitle"), Str(<<>>)),
   faqs |-> Or(Get(data, "faqs"), Arr(<<>>)),
   ctaTitle |-> Or(Get(data, "ctaTitle"), Str(<<>>)),
   ctaDescription |-> Or(Get(data, "ctaDescription"), Str(<<>>))]

\* getDynamicLandingPage's requiredFields
requiredFields ==
  {"heroTitle", "heroDescription", "featuresTitle", "features", "pricingTitle",
   "pricingDescription", "pricingTiers", "testimonialsTitle", "testimonials",
   "faqTitle", "faqs", "ctaTitle", "ctaDescription"}

\* getDynamicLandingPage without its not-found return
DynamicLandingPageOf_NoMiss(store, id, mode) ==
  IF ~Truthy(id) THEN Threw("Invalid ID")
  ELSE IF mode = "rejects" THEN Threw("redis.get rejected")
  ELSE LET data == RedisGet(store, <<DYNAMIC_PREFIX, id>>, mode)
       IN IF IsString(data) /\ ~JSONValid(data.v) THEN Threw("SyntaxError")
          ELSE LET content == IF IsString(data) THEN JSONParse(data.v) ELSE data
               IN IF ~Truthy(content) \/ content.t \notin {"obj", "arr"}
                  THEN Threw("Invalid content format")
                  ELSE IF content.t = "arr" \/ requiredFields \ DOMAIN content.v # {}
                       THEN Threw("Missing required fields")
                       ELSE Returned(content)

\* what getDynamicLandingPage(id) gives: every throw is thrown on
DynamicLandingPageOf(store, id, mode) ==
  IF ~Truthy(id) THEN Threw("Invalid ID")
  ELSE IF mode = "rejects" THEN Threw("redis.get rejected")
  ELSE LET data == RedisGet(store, <<DYNAMIC_PREFIX, id>>, mode)
       IN IF ~Truthy(data) THEN Returned(Undefined)
          ELSE IF IsString(data) /\ ~JSONValid(data.v) THEN Threw("SyntaxError")
          ELSE LET content == IF IsString(data) THEN JSONParse(data.v) ELSE data
               IN IF ~Truthy(content) \/ content.t \notin {"obj", "arr"}
                  THEN Threw("Invalid content format")
                  ELSE IF content.t = "arr" \/ requiredFields \ DOMAIN content.v # {}
                       THEN Threw("Missing required fields")
                       ELSE Returned(content)

\* the inputs of the creates so far, with the one written under key
Made(key, input) ==
  [k \in DOMAIN api.made \cup {key} |-> IF k = key THEN input ELSE api.made[k]]

\* createPageContent(payload); ok: its redis.set resolved
CreatePageContent(payload, ok) ==
  /\ nextId <= MaxCreates
  /\ LET id == Uuid(nextId)
         key == <<PREVIEW_PREFIX, id>>
         record == Spread(id, payload)
     IN /\ nextId' = nextId + 1
        /\ IF ok
           THEN /\ redis' = RedisSet(redis, key, JSONStringify(record), THIRTY_DAYS)
                /\ api' = [fn |-> "createPageContent", key |-> key, found |-> FALSE,
                           wrote |-> TRUE, read |-> "none", result |-> Returned(record),
                           made |-> Made(key, payload)]
           ELSE /\ UNCHANGED redis
                /\ api' = [fn |-> "createPageContent", key |-> key, found |-> FALSE,
                           wrote |-> FALSE, read |-> "none",
                           result |-> Threw("redis.set rejected"), made |-> api.made]
  /\ UNCHANGED <<postVars, clientVars, storeFailed, apiKey, page, viewer>>

\* createDynamicLandingPage(data); ok: its redis.set resolved
\* (an id the caller passes is one drawn before: no uuid is known earlier)
CreateDynamicLandingPage(data, ok) ==
  /\ nextId <= MaxCreates
  /\ Truthy(Get(data, "id")) => Get(data, "id") \in {Uuid(n) : n \in 1..(nextId - 1)}
  /\ LET given == Get(data, "id")
         id == Or(given, Uuid(nextId))
         key == <<DYNAMIC_PREFIX, id>>
         content == DynamicContent(data, id)
     IN /\ nextId' = IF Truthy(given) THEN nextId ELSE nextId + 1
        /\ IF ValidateThrows(content)
           THEN /\ UNCHANGED redis
                /\ api' = [fn |-> "createDynamicLandingPage", key |-> key, found |-> FALSE,
                           wrote |-> FALSE, read |-> "none",
                           result |-> Threw("validateContent"), made |-> api.made]
           ELSE IF ok
           THEN /\ redis' = RedisSet(redis, key, JSONStringify(Obj(content)), NO_EXPIRY)
                /\ api' = [fn |-> "createDynamicLandingPage", key |-> key, found |-> FALSE,
                           wrote |-> TRUE, read |-> "none", result |-> Returned(Obj(content)),
                           made |-> Made(key, data)]
           ELSE /\ UNCHANGED redis
                /\ api' = [fn |-> "createDynamicLandingPage", key |-> key, found |-> FALSE,
                           wrote |-> FALSE, read |-> "none",
                           result |-> Threw("redis.set rejected"), made |-> api.made]
  /\ UNCHANGED <<postVars, clientVars, storeFailed, apiKey, page, viewer>>

\* the revised createDynamicLandingPage(payload). back: how its redis.set
\* and its verification read settle: the set rejected ("setRejects"); the
\* read gave the text written ("same"), the value parsed out of it
\* ("deserialized"), the text of another record ("stale"), nothing
\* ("missing"), a text that is no JSON ("garbled"), or it rejected
CreateDynamicLandingPageVerifying(payload, back) ==
  /\ nextId <= MaxCreates
  /\ LET id == Uuid(nextId)
         key == <<DYNAMIC_PREFIX, id>>
         record == Spread(id, payload)
         hero == Get(payload, "heroTitle")
     IN /\ nextId' = nextId + 1
        /\ IF ~IsArray(hero) \/ Len(hero.v) # 3 \/ BlankField(Get(payload, "heroDescription"))
           THEN /\ UNCHANGED redis
                /\ api' = [fn |-> "createDynamicLandingPage:verifying", key |-> key,
                           found |-> FALSE, wrote |-> FALSE, read |-> "none",
                           result |-> Threw("validation"), made |-> api.made]
           ELSE IF back = "setRejects"
           THEN /\ UNCHANGED redis
                /\ api' = [fn |-> "createDynamicLandingPage:verifying", key |-> key,
                           found |-> FALSE, wrote |-> FALSE, read |-> "none",
                           result |-> Threw("redis.set rejected"), made |-> api.made]
           ELSE /\ redis' = RedisSet(redis, key, JSONStringify(record), THIRTY_DAYS)
                /\ api' = [fn |-> "createDynamicLandingPage:verifying", key |-> key,
                           found |-> FALSE, wrote |-> TRUE, read |-> back,
                           result |-> IF back \in {"garbled", "rejects"}
                                      THEN Threw("verification read")
                                      ELSE Returned(record),
                           made |-> Made(key, payload)]
  /\ UNCHANGED <<postVars, clientVars, storeFailed, apiKey, page, viewer>>

\* a getPageContent that deletes the key it has read
GetPageContent_Consuming(id, mode) ==
  /\ LET data == RedisGet(redis, <<PREVIEW_PREFIX, id>>, mode)
         result == IF mode = "rejects" \/ ~Truthy(data) THEN Returned(Undefined)
                   ELSE IF IsString(data) /\ JSONValid(data.v)
                        THEN Returned(JSONParse(data.v))
                        ELSE Returned(Undefined)
     IN api' = [fn |-> "getPageContent", key |-> <<PREVIEW_PREFIX, id>>,
                found |-> <<PREVIEW_PREFIX, id>> \in DOMAIN redis, wrote |-> FALSE,
                read |-> mode, result |-> result, made |-> api.made]
  /\ redis' = [k \in DOMAIN redis \ {<<PREVIEW_PREFIX, id>>} |-> redis[k]]
  /\ UNCHANGED <<postVars, clientVars, nextId, storeFailed, apiKey, page, viewer>>

\* getPageContent(id): every throw is caught and gives undefined
GetPageContent(id, mode) ==
  /\ LET data == RedisGet(redis, <<PREVIEW_PREFIX, id>>, mode)
         result == IF mode = "rejects" \/ ~Truthy(data) THEN Returned(Undefined)
                   ELSE IF IsString(data) /\ JSONValid(data.v)
                        THEN Returned(JSONParse(data.v))
                        ELSE Returned(Undefined)
     IN api' = [fn |-> "getPageContent", key |-> <<PREVIEW_PREFIX, id>>,
                found |-> <<PREVIEW_PREFIX, id>> \in DOMAIN redis, wrote |-> FALSE,
                read |-> mode, result |-> result, made |-> api.made]
  /\ UNCHANGED <<postVars, clientVars, storeVars, apiKey, page, viewer>>

\* getDynamicLandingPage(id)
GetDynamicLandingPage(id, mode) ==
  /\ api' = [fn |-> "getDynamicLandingPage", key |-> <<DYNAMIC_PREFIX, id>>,
             found |-> <<DYNAMIC_PREFIX, id>> \in DOMAIN redis, wrote |-> FALSE,
             read |-> mode, result |-> DynamicLandingPageOf(redis, id, mode),
             made |-> api.made]
  /\ UNCHANGED <<postVars, clientVars, storeVars, apiKey, page, viewer>>

\* the route without its branch for a missing record
DynamicLpResponse_NoMiss(store, slug, mode) ==
  LET got == DynamicLandingPageOf(store, slug, mode)
  IN IF got.r = "throws"
     THEN [status |-> 500,
           body |-> JSONStringify(Obj([error |-> Text("Failed to fetch content")]))]
     ELSE [status |-> 200, body |-> JSONStringify(got.v)]

\* GET /api/dynamic-lp/[slug]: the status and the JSON text of the response
DynamicLpResponse(store, slug, mode) ==
  LET got == DynamicLandingPageOf(store, slug, mode)
  IN IF got.r = "throws"
     THEN [status |-> 500,
           body |-> JSONStringify(Obj([error |-> Text("Failed to fetch content")]))]
     ELSE IF ~Truthy(got.v)
     THEN [status |-> 404,
           body |-> JSONStringify(Obj([error |-> Text("Content not found")]))]
     ELSE [status |-> 200, body |-> JSONStringify(got.v)]

\* a request GET /api/dynamic-lp/<slug> is served
DynamicLpGET(slug, mode) ==
  /\ api' = [fn |-> "GET /api/dynamic-lp/[slug]", key |-> <<DYNAMIC_PREFIX, slug>>,
             found |-> <<DYNAMIC_PREFIX, slug>> \in DOMAIN redis, wrote |-> FALSE,
             read |-> mode,
             result |-> [r |-> "responds", v |-> DynamicLpResponse(redis, slug, mode)],
             made |-> api.made]
  /\ UNCHANGED <<postVars, clientVars, storeVars, apiKey, page, viewer>>

\* a request POST /api/dynamic-lp with body b is served; ok: the redis.set
\* of the create it starts resolves. The route does not await
\* createDynamicLandingPage: newRecord is the promise, whose id property is
\* undefined and is left out of the JSON text, and a rejection of the
\* promise is not caught by the route's try
DynamicLpPOST(b, ok) ==
  /\ nextId <= MaxCreates
  /\ LET key == <<DYNAMIC_PREFIX, Uuid(nextId)>>
         defaults == [logoUrl |-> Null,
                      heroTitle |-> Arr(<<Text("Build"), Text("Test"), Text("Ship")>>),
                      heroDescription |-> Text("Your product description here..."),
                      featuresTitle |-> Text("Features"),
                      features |-> Arr(<<>>),
                      pricingTitle |-> Text("Pricing"),
                      pricingDescription |-> Text("We offer flexible plans..."),
                      pricingTiers |-> Arr(<<>>),
                      testimonialsTitle |-> Text("Testimonials"),
                      testimonials |-> Arr(<<>>),
                      faqTitle |-> Text("FAQ"),
                      faqs |-> Arr(<<>>),
                      ctaTitle |-> Text("Call To Action"),
                      ctaDescription |-> Text("Sign up now!")]
         data == Obj([f \in DOMAIN defaults |->
                        IF IsNullish(Get(b, f)) THEN defaults[f] ELSE Get(b, f)])
         content == DynamicContent(data, Uuid(nextId))
         newRecord == [t |-> "promise", v |-> 0]
         answer == [success |-> Bool(TRUE), id |-> Get(newRecord, "id")]
         sent == Obj([f \in {g \in DOMAIN answer : answer[g] # Undefined} |-> answer[f]])
     IN IF b = Unreadable \/ IsNullish(b)
        THEN /\ api' = [fn |-> "POST /api/dynamic-lp", key |-> key, found |-> FALSE,
                        wrote |-> FALSE, read |-> "none",
                        result |-> [r |-> "responds",
                                    v |-> [status |-> 500,
                                           body |-> JSONStringify(
                                             Obj([success |-> Bool(FALSE),
                                                  error |-> Text("request body")]))]],
                        made |-> api.made]
             /\ UNCHANGED <<redis, nextId>>
        ELSE /\ nextId' = nextId + 1
             /\ redis' = IF ~ValidateThrows(content) /\ ok
                         THEN RedisSet(redis, key, JSONStringify(Obj(content)), NO_EXPIRY)
                         ELSE redis
             /\ api' = [fn |-> "POST /api/dynamic-lp", key |-> key, found |-> FALSE,
                        wrote |-> ~ValidateThrows(content) /\ ok, read |-> "none",
                        result |-> [r |-> "responds",
                                    v |-> [status |-> 200, body |-> JSONStringify(sent)]],
                        made |-> IF ~ValidateThrows(content) /\ ok
                                 THEN Made(key, data) ELSE api.made]
  /\ UNCHANGED <<postVars, clientVars, storeFailed, apiKey, page, viewer>>

\* a key set with an ex option reaches its expiry
Expire(key) ==
  /\ redis[key].ex # NO_EXPIRY
  /\ redis' = [k \in DOMAIN redis \ {key} |-> redis[k]]
  /\ UNCHANGED <<postVars, clientVars, nextId, storeFailed, apiKey, api, page, viewer>>

\* arguments of the dynamic store's create: a complete one, a complete one
\* carrying the id of an earlier record, an empty one
DynamicData ==
  {TopDoc(FullDoc, "logoUrl", Null),
   TopDoc(TopDoc(FullDoc, "logoUrl", Text("https://cdn.example/logo.png")).v, "id", Uuid(1)),
   Obj(EmptyFields)}

\* identifiers asked for: the first one drawn, one never drawn, the empty
\* string
AskedIds == {Uuid(1), Uuid(9), Str(<<>>)}

NextStore ==
  \/ \E p \in {TopDoc(FullDoc, "idea", Text("app")),
               Obj([idea |-> Text("app"),
                    heroDescription |-> Text("Ship faster with less work")])},
        ok \in BOOLEAN :
       CreatePageContent(p, ok)
  \/ \E d \in DynamicData, ok \in BOOLEAN : CreateDynamicLandingPage(d, ok)
  \/ \E p \in {TopDoc(FullDoc, "logoUrl", Null),
               Obj([heroTitle |-> FullDoc.heroTitle,
                    heroDescription |-> FullDoc.heroDescription]),
               Obj(EmptyFields)},
        back \in {"setRejects", "same", "deserialized", "stale", "missing", "garbled",
                  "rejects"} :
       CreateDynamicLandingPageVerifying(p, back)
  \/ \E id \in AskedIds, mode \in {"text", "deserialized", "rejects"} : GetPageContent(id, mode)
  \/ \E id \in AskedIds, mode \in {"text", "deserialized", "rejects"} : GetDynamicLandingPage(id, mode)
  \/ \E key \in DOMAIN redis : Expire(key)

SpecStore == InitNorm /\ [][NextStore]_vars

\* the two routes of /api/dynamic-lp over the dynamic store, whose records
\* the creates write and the expiry removes
NextRoutes ==
  \/ \E d \in DynamicData, ok \in BOOLEAN : CreateDynamicLandingPage(d, ok)
  \/ \E p \in {TopDoc(FullDoc, "logoUrl", Null),
               Obj([heroTitle |-> FullDoc.heroTitle,
                    heroDescription |-> FullDoc.heroDescription])} :
       CreateDynamicLandingPageVerifying(p, "same")
  \/ \E key \in DOMAIN redis : Expire(key)
  \/ \E slug \in AskedIds \ {Str(<<>>)}, mode \in {"text", "deserialized", "rejects"} :
       DynamicLpGET(slug, mode)
  \/ \E b \in {Unreadable, Null, Obj(EmptyFields), TopDoc(FullDoc, "logoUrl", Null)},
        ok \in BOOLEAN :
       DynamicLpPOST(b, ok)

SpecRoutes == InitNorm /\ [][NextRoutes]_vars

(***************************************************************************)
(* The generator page: handleGenerate reads the response of                *)
(* POST /api/generator. The response arrives as symbols, as the upstream   *)
(* stream does:                                                            *)
(*   FrameOpen(f), FrameClose   the two halves of the JSON text of frame f *)
(*   PingMark                   [ping]                                     *)
(***************************************************************************)
FrameOpen(f) == [t |-> "frame", v |-> f]
FrameClose == [t |-> "endframe", v |-> 0]
PingMark == [t |-> "[ping]", v |-> 0]

\* data: [ping]
PingFrame == [k |-> "ping", from |-> "post", msg |-> "[ping]", gid |-> Undefined, did |-> Undefined]

RECURSIVE ResponseBytes(_)
\* the response: data: <payload>\n\n for each frame
ResponseBytes(fs) ==
  IF fs = <<>> THEN <<>>
  ELSE <<DataPrefix>>
       \o (CASE fs[1].k = "done" -> <<DoneA, DoneB>>
             [] fs[1].k = "ping" -> <<PingMark>>
             [] OTHER -> <<FrameOpen(fs[1]), FrameClose>>)
       \o <<NL, NL>>
       \o ResponseBytes(Tail(fs))

\* addLog(message) of the page itself
PageLog(m) == [from |-> "page", msg |-> m]

\* the try block on a parsed frame: addLog, setGeneratedIds, router.push
OnFrame(f, st) ==
  IF f.k = "log"
  THEN [st EXCEPT !.logs = Append(@, [from |-> f.from, msg |-> f.msg])]
  ELSE IF Truthy(f.gid) \/ Truthy(f.did)
  THEN [st EXCEPT !.generatedIds = Obj([preview |-> f.gid, dynamic |-> f.did]),
                  !.logs = @ \o <<PageLog("Landing page generated successfully!"),
                                  PageLog("Redirecting to dynamic version...")>>,
                  !.pushed = IF Truthy(f.did) THEN f.did ELSE @]
  ELSE st

RECURSIVE PageLines(_, _)
\* the for loop over the complete lines of the buffer; JSON.parse succeeds
\* on the two halves of a frame's text and throws on anything else
PageLines(lines, st) ==
  IF lines = <<>> THEN st
  ELSE LET line == lines[1]
       IN IF line = <<>> \/ line[1] # DataPrefix
          THEN PageLines(Tail(lines), st)
          ELSE IF Tail(line) = <<DoneA, DoneB>>
          THEN [st EXCEPT !.pc = "ended", !.isGenerating = FALSE, !.isGeneratingIdea = FALSE]
          ELSE IF Tail(line) = <<PingMark>>
          THEN PageLines(Tail(lines), st)
          ELSE IF Len(line) = 3 /\ line[2].t = "frame" /\ line[3] = FrameClose
          THEN PageLines(Tail(lines), OnFrame(line[2].v, st))
          ELSE PageLines(Tail(lines),
                         [st EXCEPT !.logs = Append(@, PageLog("Error parsing chunk: "))])

PageStart ==
  <<PageLog("Starting generation process..."), PageLog("Sending request to /api/generator...")>>

\* generateIdea: the fetch of /api/generator/idea resolves with an idea
\* (ok), and handleGenerate(data.idea) is called, or it fails and the catch
\* clears the flag
GenerateIdea(ok) ==
  /\ page.pc = "idle"
  /\ page' = IF ok
             THEN [page EXCEPT !.pc = "idea", !.isGeneratingIdea = TRUE,
                               !.logs = <<PageLog("Generating business idea..."),
                                          PageLog("Business idea generated!")>>]
             ELSE [page EXCEPT !.pc = "failed", !.isGeneratingIdea = FALSE,
                               !.logs = <<PageLog("Generating business idea..."),
                                          PageLog("Error generating idea: ")>>]
  /\ UNCHANGED <<postVars, clientVars, storeVars, apiKey, api, viewer>>

\* handleGenerate, called by the button or by generateIdea: the fetch
\* resolves with a streamed response
HandleGenerate(stream) ==
  /\ page.pc \in {"idle", "idea"}
  /\ page' = [page EXCEPT !.pc = "reading", !.stream = stream, !.isGenerating = TRUE,
                          !.net = ResponseBytes(stream),
                          !.logs = PageStart
                                   \o <<PageLog("Starting to read response stream...")>>]
  /\ UNCHANGED <<postVars, clientVars, storeVars, apiKey, api, viewer>>

\* handleGenerate: the response is not ok, has no body, or the fetch rejects
HandleGenerateFails(how) ==
  /\ page.pc \in {"idle", "idea"}
  /\ page' = [page EXCEPT !.pc = "failed",
                          !.logs = PageStart \o <<PageLog(how)>>,
                          !.isGenerating = FALSE,
                          !.isGeneratingIdea = IF how = "Client error: " THEN FALSE ELSE @]
  /\ UNCHANGED <<postVars, clientVars, storeVars, apiKey, api, viewer>>

\* reader.read() yields the next n symbols of the response
PageRead(n) ==
  /\ page.pc = "reading"
  /\ n \in 1..Len(page.net)
  /\ LET lines == SplitLines(page.buffer \o SubSeq(page.net, 1, n))
         st == [page EXCEPT !.net = SubSeq(page.net, n + 1, Len(page.net)),
                            !.buffer = lines[Len(lines)]]
     IN page' = PageLines(SubSeq(lines, 1, Len(lines) - 1), st)
  /\ UNCHANGED <<postVars, clientVars, storeVars, apiKey, api, viewer>>

\* reader.read() yields done
PageReadEnd ==
  /\ page.pc = "reading"
  /\ page.net = <<>>
  /\ page' = [page EXCEPT !.pc = "ended", !.isGenerating = FALSE, !.isGeneratingIdea = FALSE]
  /\ UNCHANGED <<postVars, clientVars, storeVars, apiKey, api, viewer>>

\* reader.read() rejects
PageReadError ==
  /\ page.pc = "reading"
  /\ page' = [page EXCEPT !.pc = "failed", !.net = <<>>, !.buffer = <<>>,
                          !.logs = Append(@, PageLog("Client error: ")),
                          !.isGenerating = FALSE, !.isGeneratingIdea = FALSE]
  /\ UNCHANGED <<postVars, clientVars, storeVars, apiKey, api, viewer>>

RECURSIVE WithPings(_, _)
\* every interleaving of at most n [ping] frames with the frames of s
WithPings(s, n) ==
  IF n = 0 THEN {s}
  ELSE LET less == WithPings(s, n - 1)
       IN less \cup UNION {{SubSeq(t, 1, i) \o <<PingFrame>> \o SubSeq(t, i + 1, Len(t)) :
                               i \in 0..Len(t)} : t \in less}

\* responses the page reads: the frames of a failed run or of a complete
\* run, [ping] frames among them, ended by [DONE] or cut before it
Responses ==
  LET plain == {<<Log("Error parsing content: ")>>,
                <<Log("Normalized content: "), IdsFrame(Uuid(1), Uuid(2)),
                  Log("Generation complete!")>>}
  IN {s \o tail : s \in UNION {WithPings(p, MaxPings) : p \in plain},
                  tail \in {<<>>, <<DoneFrame>>}}

NextPing ==
  \/ POST(GoodBody)
  \/ FetchResolve(Answer("ok", EventStream(JSONStringify(Obj(FullDoc)), TRUE)))
  \/ ClientReadChunk(Len(net))
  \/ KeepAliveTick
  \/ PostRead
  \/ PostReadEnd
  \/ PreviewSet(TRUE)
  \/ DynamicSet(TRUE)
  \/ \E ok \in BOOLEAN : GenerateIdea(ok)
  \/ \E stream \in Responses : HandleGenerate(stream)
  \/ \E how \in {"Server error: ", "No response body received", "Client error: "} :
       HandleGenerateFails(how)
  \/ \E n \in 1..Len(page.net) : PageRead(n)
  \/ PageReadEnd
  \/ PageReadError

SpecPing == InitNorm /\ [][NextPing]_vars

(***************************************************************************)
(* The viewer page /dynamic-lp/[slug]: its effect runs loadContent, which  *)
(* fetches the content route. Two versions of the component are modelled:  *)
(* version 1 with the effect's dependencies [slug, loadAttempts, content,  *)
(* error], version 2 with MAX_RETRIES and the dependencies                 *)
(* [slug, loadAttempts]. pc is "loading" while a run of the effect is      *)
(* under way or due, "settled" when no run is due. waits lists, for each   *)
(* fetch of the load cycle, the delay waited before it.                    *)
(***************************************************************************)
MAX_RETRIES == 3
RETRY_DELAY == 1000

\* the component is rendered for the first time and its effect runs
Mount(version, slug) ==
  /\ viewer.pc = "unmounted"
  /\ viewer' = [viewer EXCEPT !.pc = "loading", !.version = version, !.slug = slug,
                              !.loads = 1]
  /\ UNCHANGED <<postVars, clientVars, storeVars, apiKey, api, page>>

\* loadContent of version 1; arrives: the fetch resolves. A state that an
\* effect dependency names and that got a new value runs the effect again:
\* content does on every success, for response.json() gives a new object
LoadContentV1(arrives, mode) ==
  /\ viewer.pc = "loading"
  /\ viewer.version = 1
  /\ Len(viewer.waits) < MaxFetches
  /\ LET res == DynamicLpResponse(redis, viewer.slug, mode)
         data == JSONParse(res.body)
         failed == Text("Failed to load content. Please try refreshing the page.")
         missing == Text("Content not found after multiple attempts.")
         fetched == [viewer EXCEPT !.waits = Append(@, 0)]
     IN viewer' =
          IF ~arrives \/ res.status # 200
          THEN [fetched EXCEPT !.isLoading = FALSE, !.error = failed,
                               !.pc = IF viewer.error = failed THEN "settled" ELSE "loading"]
          ELSE IF Truthy(data)
          THEN [fetched EXCEPT !.content = data, !.isLoading = FALSE, !.error = Null]
          ELSE IF viewer.loadAttempts < 2
          THEN [fetched EXCEPT !.loadAttempts = @ + 1]
          ELSE [fetched EXCEPT !.isLoading = FALSE, !.error = missing,
                               !.pc = IF viewer.error = missing THEN "settled" ELSE "loading"]
  /\ UNCHANGED <<postVars, clientVars, storeVars, apiKey, api, page>>

\* loadContent of version 2 retrying after every failure
LoadContent_NoLimit(arrives, mode) ==
  /\ viewer.pc = "loading"
  /\ viewer.version = 2
  /\ LET res == DynamicLpResponse(redis, viewer.slug, mode)
         data == JSONParse(res.body)
         fetched == [viewer EXCEPT
                       !.waits = Append(@, IF viewer.loadAttempts > 0
                                           THEN RETRY_DELAY * viewer.loadAttempts ELSE 0)]
     IN viewer' =
          IF arrives /\ res.status = 200 /\ Truthy(data)
          THEN [fetched EXCEPT !.content = data, !.isLoading = FALSE, !.error = Null,
                               !.pc = "settled"]
          ELSE [fetched EXCEPT !.loadAttempts = @ + 1]
  /\ UNCHANGED <<postVars, clientVars, storeVars, apiKey, api, page>>

\* loadContent of version 2; arrives: the fetch resolves
LoadContent(arrives, mode) ==
  /\ viewer.pc = "loading"
  /\ viewer.version = 2
  /\ LET res == DynamicLpResponse(redis, viewer.slug, mode)
         data == JSONParse(res.body)
         missingFields == {f \in requiredFields :
                             IF IsArray(Get(data, f)) THEN Get(data, f).v = <<>>
                             ELSE ~Truthy(Get(data, f))}
         message == IF ~arrives THEN Text("Failed to fetch")
                    ELSE IF res.status # 200 THEN Text("HTTP error! status: ")
                    ELSE IF ~Truthy(data) THEN Text("No data received from API")
                    ELSE IF missingFields # {} THEN Text("Missing or empty required fields: ")
                    ELSE Null
         fetched == [viewer EXCEPT
                       !.waits = Append(@, IF viewer.loadAttempts > 0
                                           THEN RETRY_DELAY * viewer.loadAttempts ELSE 0)]
     IN viewer' =
          IF message = Null
          THEN [fetched EXCEPT !.content = data, !.isLoading = FALSE, !.error = Null,
                               !.pc = "settled"]
          ELSE IF viewer.loadAttempts < MAX_RETRIES - 1
          THEN [fetched EXCEPT !.loadAttempts = @ + 1]
          ELSE [fetched EXCEPT !.isLoading = FALSE, !.error = message, !.pc = "settled"]
  /\ UNCHANGED <<postVars, clientVars, storeVars, apiKey, api, page>>

\* the Try Again button of version 2, shown with the error and with the
\* Content Not Found screen; the effect runs again if loadAttempts changes
TryAgain ==
  /\ viewer.version = 2
  /\ viewer.pc = "settled"
  /\ viewer.error # Null \/ (~viewer.isLoading /\ ~Truthy(viewer.content))
  /\ viewer.loads < MaxLoads
  /\ viewer' = [viewer EXCEPT !.error = Null, !.isLoading = TRUE, !.loadAttempts = 0,
                              !.pc = IF viewer.loadAttempts # 0 THEN "loading" ELSE @,
                              !.waits = IF viewer.loadAttempts # 0 THEN <<>> ELSE @,
                              !.loads = IF viewer.loadAttempts # 0 THEN @ + 1 ELSE @]
  /\ UNCHANGED <<postVars, clientVars, storeVars, apiKey, api, page>>

NextViewer ==
  \/ \E d \in DynamicData, ok \in BOOLEAN : CreateDynamicLandingPage(d, ok)
  \/ \E p \in {TopDoc(FullDoc, "logoUrl", Null), TopDoc(FullDoc, "features", Arr(<<>>))} :
       CreateDynamicLandingPageVerifying(p, "same")
  \/ \E key \in DOMAIN redis : Expire(key)
  \/ \E version \in {1, 2}, slug \in AskedIds \ {Str(<<>>)} : Mount(version, slug)
  \/ \E arrives \in BOOLEAN, mode \in {"text", "deserialized", "rejects"} : LoadContentV1(arrives, mode)
  \/ \E arrives \in BOOLEAN, mode \in {"text", "deserialized", "rejects"} : LoadContent(arrives, mode)
  \/ TryAgain

SpecViewer == InitNorm /\ [][NextViewer]_vars

(***************************************************************************)
(* Properties                                                              *)
(***************************************************************************)
RECURSIVE DeltaTokens(_)
\* the content fragments an event stream carries, in order
DeltaTokens(stream) ==
  IF stream = <<>> THEN <<>>
  ELSE (IF stream[1].t = "delta" THEN <<stream[1].v>> ELSE <<>>)
       \o DeltaTokens(Tail(stream))

\* the text the upstream model produced, and the document it denotes
SentText == DeltaTokens(upstream)
SentDoc == JSONParse(SentText)

HasFrame(kind) == \E i \in 1..Len(frames) : frames[i].k = kind
HasLog(f) == \E i \in 1..Len(frames) : frames[i] = f

\* the records held by the store under a key prefix
Stored(prefix) == {JSONParse(redis[k].value) : k \in {q \in DOMAIN redis : q[1] = prefix}}
StoredAll == Stored(PREVIEW_PREFIX) \cup Stored(DYNAMIC_PREFIX)

\* the idea is missing, empty or made of whitespace only
BlankIdea(b) ==
  /\ b.t = "obj"
  /\ \/ "idea" \notin DOMAIN b.v
     \/ /\ b.v["idea"].t = "str"
        /\ \A i \in 1..Len(b.v["idea"].v) : b.v["idea"].v[i] = " "

\* C1: a POST whose idea is missing, empty or whitespace-only answers with
\* exactly the frame {log: "No idea provided."} followed by [DONE] on a
\* closed stream, makes no upstream request and writes to neither store.
C1_NoIdeaProvided ==
  (pc # "idle" /\ BlankIdea(body)) =>
    /\ response = "stream"
    /\ frames = <<Log("No idea provided."), DoneFrame>>
    /\ closed
    /\ fetches = 0
    /\ cpc = "off"
    /\ redis = EmptyStore

C1_Witness ==
  /\ pc = "done"
  /\ body = Obj([idea |-> Str(<<" ", " ">>)])
  /\ closed

\* the frames of a response stream are well formed: [DONE] only as the last
\* frame, present exactly when the stream is closed, nothing enqueued after
\* the close, every frame a log frame or the one ids frame
StreamShape ==
  /\ ~lateFrame
  /\ \A i \in 1..Len(frames) :
       /\ frames[i].k \in {"log", "ids", "done"}
       /\ frames[i].k = "done" => i = Len(frames)
  /\ closed <=> (frames # <<>> /\ frames[Len(frames)].k = "done")
  /\ Cardinality({i \in 1..Len(frames) : frames[i].k = "ids"}) <= 1

\* the body is a JSON object whose idea is absent, falsy or a string
IdeaAbsentOrString(b) ==
  /\ b.t = "obj"
  /\ \/ "idea" \notin DOMAIN b.v
     \/ b.v["idea"].t = "str"
     \/ ~Truthy(b.v["idea"])

\* C2 (as stated): every POST with a readable JSON body ends as a response
\* stream closed by exactly one [DONE] frame.
C2_EveryReadableBody ==
  (pc = "done" /\ body # Unreadable) =>
    /\ response = "stream"
    /\ closed
    /\ StreamShape

\* the request is still being served: some step of the handler, of the
\* streaming client or of the environment it awaits can be taken
CanStep ==
  \/ pc = "reading" /\ innerQ = <<>> /\ innerClosed
  \/ ENABLED (\/ \E up \in SmallAnswers : FetchResolve(up)
              \/ FetchReject
              \/ ErrorText
              \/ \E n \in 1..Len(net) : ClientReadChunk(n)
              \/ ClientReadEnd
              \/ ClientReadError
              \/ PostRead
              \/ \E ok \in BOOLEAN : PreviewSet(ok)
              \/ \E ok \in BOOLEAN : DynamicSet(ok))

\* C2 (amended): for every POST whose JSON body is an object with an idea
\* that is absent, falsy or a string, the response is a stream that on
\* every outcome ends with exactly one [DONE] frame: until the stream is
\* closed a further step is always possible, the handler finishes only with
\* the stream closed, [DONE] is the last frame exactly when it is closed,
\* every earlier frame is a log frame or the one ids frame, and nothing is
\* enqueued after [DONE].
C2_StreamEndsWithDone ==
  /\ response = "stream" => StreamShape
  /\ (pc # "idle" /\ IdeaAbsentOrString(body)) =>
       /\ response = "stream"
       /\ pc = "done" => closed
       /\ ~closed => CanStep

C2_Witness ==
  /\ pc = "done"
  /\ HasFrame("ids")
  /\ closed
  /\ frames[Len(frames)] = DoneFrame

\* the hero title arrays present at the probed places of a document
HeroArrays(doc) ==
  {a \in {OptGet(doc, "heroTitle"), OptGet(OptGet(doc, "hero"), "heroTitle"),
          OptGet(OptGet(doc, "Hero"), "heroTitle"),
          OptGet(OptGet(doc, "heroSection"), "heroTitle")} : a.t = "arr"}

\* a one-entry title whose entry is a string holding a period
SingleDotted(h) ==
  Len(h) = 1 /\ h[1].t = "str" /\ \E i \in 1..Len(h[1].v) : h[1].v[i] = "."

\* entries kept, the missing places filled from the default triple
KeptAndPadded(h, found) ==
  /\ Len(h) = 3
  /\ \A i \in 1..3 :
       h[i] = IF i <= Len(found) THEN found[i]
              ELSE <<Text("Build"), Text("Launch"), Text("Scale")>>[i]

\* C3 (as stated): every stored record has a heroTitle of exactly 3 entries;
\* a found array longer than 3 is cut to its first 3, a shorter one keeps its
\* entries and is padded from the default triple, and with no array found
\* the title is the default triple.
C3_HeroTitleThree ==
  \A rec \in StoredAll :
    LET h == rec.v.heroTitle.v
        found == HeroTitleFound(SentDoc)
    IN /\ Len(h) = 3
       /\ Len(found) > 3 => h = SubSeq(found, 1, 3)
       /\ Len(found) < 3 => KeptAndPadded(h, found)
       /\ HeroArrays(SentDoc) = {} => h = <<Text("Build"), Text("Launch"), Text("Scale")>>

\* C3 (amended): as stated, except that a found array shorter than 3 keeps
\* its entries only when it is not a single string entry holding a period
\* (that one is first split on its periods).
C3_HeroTitleThreeUnlessSplit ==
  \A rec \in StoredAll :
    LET h == rec.v.heroTitle.v
        found == HeroTitleFound(SentDoc)
    IN /\ Len(h) = 3
       /\ Len(found) > 3 => h = SubSeq(found, 1, 3)
       /\ (Len(found) < 3 /\ ~SingleDotted(found)) => KeptAndPadded(h, found)
       /\ HeroArrays(SentDoc) = {} => h = <<Text("Build"), Text("Launch"), Text("Scale")>>

C3_Witness ==
  /\ pc = "done"
  /\ Cardinality(StoredAll) = 2
  /\ Len(HeroTitleFound(SentDoc)) = 2
  /\ HeroArrays(SentDoc) # {}

\* C4: for any parseable upstream document every list of the normalized
\* record is non-empty and meets its minimum: 6 features, 2 pricing tiers,
\* 3 testimonials and 4 FAQs.
C4_ListMinimums ==
  normalized # NoContent =>
    /\ Len(normalized.features.v) >= 6
    /\ Len(normalized.pricingTiers.v) >= 2
    /\ Len(normalized.testimonials.v) >= 3
    /\ Len(normalized.faqs.v) >= 4

\* complete documents whose pricing tiers, testimonials or FAQs are present
\* and well formed but fewer than their target
ShortListDocs ==
  {TopDoc(FullDoc, "pricingTiers", Arr(<<GoodTier>>))}
  \cup {TopDoc(FullDoc, "testimonials", Arr([i \in 1..m |-> GoodTestimonial])) : m \in 1..2}
  \cup {TopDoc(FullDoc, "faqs", Arr([i \in 1..m |-> GoodFaq])) : m \in 1..3}

\* C5: when the upstream document's pricing tiers, testimonials or FAQs are
\* present but shorter than their target, the pipeline raises no error,
\* writes both stores and emits the ids frame.
C5_ShortListsStored ==
  (pc = "done" /\ JSONValid(SentText) /\ SentDoc \in ShortListDocs) =>
    /\ ~HasLog(Log("Error parsing content: "))
    /\ Stored(PREVIEW_PREFIX) # {}
    /\ Stored(DYNAMIC_PREFIX) # {}
    /\ HasFrame("ids")

\* every leaf of a value is a string
RECURSIVE AllStrings(_)
AllStrings(x) ==
  CASE x.t = "str" -> TRUE
    [] x.t = "arr" -> \A i \in 1..Len(x.v) : AllStrings(x.v[i])
    [] x.t = "obj" -> \A k \in DOMAIN x.v : AllStrings(x.v[k])
    [] OTHER -> FALSE

\* C6: every text leaf of the normalized record is a string: titles,
\* descriptions, each heroTitle entry, feature titles, contents and icons,
\* tier names, prices, descriptions and features, testimonial names, roles
\* and contents, FAQ questions and answers.
C6_TextLeavesAreStrings ==
  normalized # NoContent =>
    /\ \A k \in DOMAIN normalized \ {"testimonials"} : AllStrings(normalized[k])
    /\ \A i \in 1..Len(normalized.testimonials.v) :
         \A k \in {"name", "role", "content"} :
           normalized.testimonials.v[i].v[k].t = "str"

\* C7: when the text accumulated at the sentinel is not valid JSON the
\* fallback content is substituted and no parse error surfaces: a record
\* carrying the fallback's hero title, description and features is stored
\* and its ids are returned.
C7_FallbackRecordStored ==
  (pc = "done" /\ sawSentinel /\ ~JSONValid(TrimText(clientText)) /\ ~storeFailed) =>
    /\ ~HasLog(Log("Error parsing content: "))
    /\ HasFrame("ids")
    /\ Stored(PREVIEW_PREFIX) # {}
    /\ \A rec \in StoredAll :
         /\ \E i \in 1..Len(rec.v.heroTitle.v) :
              rec.v.heroTitle.v[i] = FallbackContent.v.heroTitle
         /\ rec.v.heroDescription = FallbackContent.v.heroDescription
         /\ \A i \in 1..Len(FallbackContent.v.features.v) :
              rec.v.features.v[i].v.title = FallbackContent.v.features.v[i]

\* C8: whenever the upstream exchange ends with empty accumulated text (a
\* sentinel with no content before it, an upstream HTTP error, or an end of
\* stream before the sentinel) the result is the fallback content and a
\* stored record with its ids, not a failure.
C8_EmptyTextGivesRecord ==
  (/\ pc = "done"
   /\ ~storeFailed
   /\ TrimText(clientText) = <<>>
   /\ \/ sawSentinel
      \/ HasLog(GptLog("OpenAI error. Status: "))
      \/ HasLog(GptLog("Completed reading from OpenAI. Closing stream..."))) =>
    /\ ~HasLog(Log("Error parsing content: "))
    /\ HasFrame("ids")
    /\ Stored(PREVIEW_PREFIX) # {}

\* C9: the text accumulated when the sentinel is seen is the concatenation,
\* in order, of every delta fragment of the upstream stream, however the
\* stream is cut into network chunks.
C9_AccumulatedIsConcatenation ==
  sawSentinel => clientText = SentText

\* C10: the keep-alive timer is cancelled on every path that ends the
\* client's read loop, and no [ping] is enqueued once its stream is closed.
C10_KeepAliveCancelled ==
  /\ innerClosed => ~keepAlive
  /\ ~latePing

\* the thirteen content fields of a record
ContentFields ==
  {"heroTitle", "heroDescription", "featuresTitle", "features", "pricingTitle",
   "pricingDescription", "pricingTiers", "testimonialsTitle", "testimonials", "faqTitle",
   "faqs", "ctaTitle", "ctaDescription"}

\* a stored record carries the normalized record: every content field is the
\* normalized one, a feature's icon possibly re-assigned when it is blank
CarriesNormalized(rec) ==
  /\ \A f \in ContentFields \ {"features"} : rec.v[f] = normalized[f]
  /\ Len(rec.v.features.v) = Len(normalized.features.v)
  /\ \A i \in 1..Len(normalized.features.v) :
       LET a == rec.v.features.v[i].v
           b == normalized.features.v[i].v
       IN /\ a.title = b.title
          /\ a.content = b.content
          /\ Truthy(b.icon) => a.icon = b.icon

CleanPart(x) ==
  /\ x.t = "str"
  /\ x.v # <<>>
  /\ \A i \in 1..Len(x.v) : x.v[i] # "."
  /\ x.v[1] # " "
  /\ x.v[Len(x.v)] # " "

\* C13: a discovered hero title of exactly one entry that contains a period
\* is replaced, before the truncate-or-pad step, by the entry split on its
\* periods, each part trimmed and empty parts dropped; so
\* ["Build fast. Ship faster. Grow forever."] becomes
\* ["Build fast", "Ship faster", "Grow forever"].
C13_SingleEntrySplit ==
  normalized # NoContent =>
    LET found == HeroTitleFound(SentDoc)
        h == normalized.heroTitle.v
    IN SingleDotted(found) =>
         /\ Len(h) = 3
         /\ \A i \in 1..3 : CleanPart(h[i])
         /\ found = <<DottedTitle>> =>
              h = <<Text("Build fast"), Text("Ship faster"), Text("Grow forever")>>
         /\ found = <<Str(<<"Fast", ".", " ", "Easy">>)>> =>
              h = <<Text("Fast"), Text("Easy"), Text("Scale")>>
         /\ found = <<Str(<<"A", ".", "B", ".", "C", ".", "D">>)>> =>
              h = <<Text("A"), Text("B"), Text("C")>>
         /\ found = <<Str(<<".">>)>> =>
              h = <<Text("Build"), Text("Launch"), Text("Scale")>>

C13_Witness ==
  /\ normalized # NoContent
  /\ HeroTitleFound(SentDoc) = <<DottedTitle>>
  /\ Cardinality(DOMAIN redis) = 2

\* C14: when the upstream features are plain strings the normalized list
\* has exactly 6 entries; the string s at position i becomes {title: s,
\* content: the templated sentence built from s, icon: FEATURE_ICONS[i mod
\* 6]} and the padding continues the round-robin by position, repeated
\* strings included.
C14_StringFeaturesRoundRobin ==
  normalized # NoContent =>
    LET fs == FeaturesFound(SentDoc)
        out == normalized.features.v
    IN (fs # <<>> /\ \A i \in 1..Len(fs) : fs[i].t = "str") =>
         /\ Len(out) = 6
         /\ \A i \in 1..6 : out[i].v.icon = Text(FEATURE_ICONS[((i - 1) % 6) + 1])
         /\ \A i \in 1..6 :
              i <= Len(fs) =>
                /\ out[i].v.title = fs[i]
                /\ out[i].v.content =
                     Str(<<"Leverage the power of", " ">> \o fs[i].v
                         \o <<" ", "to transform your business", ".">>)
\* an argument of create carrying every content field and no id of its own
WellFormed(r) == requiredFields \subseteq DOMAIN r.v /\ "id" \notin DOMAIN r.v

Gets == {"getPageContent", "getDynamicLandingPage"}

\* the last call was a get of a live key that a create of a well-formed
\* record wrote, and the store answered the read
GotCreated ==
  /\ api.fn \in Gets
  /\ api.found
  /\ api.read # "rejects"
  /\ api.key \in DOMAIN api.made
  /\ WellFormed(api.made[api.key])

\* C15: in both stores, for every well-formed record r, get(create(r).id)
\* returns a record deep-equal to r plus the generated id.
C15_RoundTrip ==
  GotCreated => api.result = Returned(Spread(api.key[2], api.made[api.key]))

\* C16: every create, in both stores, writes its record under the store's
\* namespaced key with a 30-day expiry: no key a create wrote is without it.
C16_ThirtyDayExpiry ==
  \A k \in DOMAIN redis :
    /\ k[1] \in {PREVIEW_PREFIX, DYNAMIC_PREFIX}
    /\ redis[k].ex = THIRTY_DAYS

DynamicCreates == {"createDynamicLandingPage", "createDynamicLandingPage:verifying"}

\* read-backs that gave something else than the record written
Differing == {"stale", "missing", "garbled"}

\* C18: the dynamic store's create reads the key back right after writing it
\* and raises a verification error when the value read differs from the
\* value written.
C18_ReadBackVerified ==
  (api.fn \in DynamicCreates /\ api.wrote) =>
    /\ api.read # "none"
    /\ api.read \in Differing => api.result.r = "throws"

\* the last call was a get of an identifier that has no key, answered by
\* the store
GotAbsent == api.fn \in Gets /\ ~api.found /\ api.read # "rejects"

\* C19: in both stores, get on an identifier for which no key exists
\* returns not-found and never throws, for every identifier value.
C19_AbsentIsNotFound == GotAbsent => api.result = Returned(Undefined)

\* C19 (amended): in both stores, get on a non-empty identifier for which no
\* key exists returns not-found and does not throw; the preview store's get
\* never throws at all.
C19_AbsentIsNotFoundForNonEmptyId ==
  /\ (GotAbsent /\ Truthy(api.key[2])) => api.result = Returned(Undefined)
  /\ api.fn = "getPageContent" => api.result.r = "returns"

\* a record was created, its key expired, and the dynamic store's get of its
\* id answered not-found
C19_Witness ==
  /\ api.fn = "getDynamicLandingPage"
  /\ api.key \in DOMAIN api.made
  /\ ~api.found
  /\ api.result = Returned(Undefined)

\* a stored text that parses to an object without some required field
Lacking(text) ==
  /\ JSONValid(text)
  /\ JSONParse(text).t = "obj"
  /\ requiredFields \ DOMAIN JSONParse(text).v # {}

\* C20: get raises an error, rather than returning a record or not-found,
\* whenever the stored value parses to an object that lacks a required
\* field of the content schema.
C20_LackingFieldRaises ==
  (/\ api.fn \in Gets
   /\ api.found
   /\ api.read # "rejects"
   /\ api.key \in DOMAIN redis
   /\ Lacking(redis[api.key].value)) => api.result.r = "throws"

RECURSIVE QueuedText(_)
\* the content of the chunks of q, its [ping] chunks left out
QueuedText(q) ==
  IF q = <<>> THEN <<>>
  ELSE (IF q[1].k = "ping" THEN <<>> ELSE q[1].text) \o QueuedText(Tail(q))

\* the frames of a response the page acts on: those before [DONE], without
\* the [ping] frames
RECURSIVE Acted(_)
Acted(fs) ==
  IF fs = <<>> \/ fs[1].k = "done" THEN <<>>
  ELSE (IF fs[1].k = "ping" THEN <<>> ELSE <<fs[1]>>) \o Acted(Tail(fs))

RECURSIVE ShownLogs(_)
\* the log lines the page shows for frames
ShownLogs(fs) ==
  IF fs = <<>> THEN <<>>
  ELSE (IF fs[1].k = "log" THEN <<[from |-> fs[1].from, msg |-> fs[1].msg]>>
        ELSE <<PageLog("Landing page generated successfully!"),
               PageLog("Redirecting to dynamic version...")>>)
       \o ShownLogs(Tail(fs))

\* the ids of the last ids frame among fs
LastIds(fs) ==
  LET at == {i \in 1..Len(fs) : fs[i].k = "ids"}
  IN IF at = {} THEN Undefined
     ELSE LET i == CHOOSE j \in at : \A m \in at : m <= j
          IN Obj([preview |-> fs[i].gid, dynamic |-> fs[i].did])

\* C11: pings never reach the content payload. However [ping] chunks are
\* interleaved with the content chunks, the text the generator route has
\* accumulated, with what is still queued for it, is the content the client
\* sent, the same as with the pings removed; and the generator page, once
\* it has read a response to its end, shows the log lines and holds the ids
\* of the response with its [ping] frames removed: it logs no ping and
\* takes none as a result.
C11_PingsNeverReachContent ==
  /\ pc = "reading" =>
       accumulatedText \o QueuedText(innerQ)
         = (IF sawSentinel THEN SentinelChunk(clientText).text ELSE <<>>)
  /\ pc \in {"createPreview", "createDynamic", "done"} =>
       accumulatedText = SentinelChunk(clientText).text
  /\ page.pc = "ended" =>
       /\ page.logs = PageStart \o <<PageLog("Starting to read response stream...")>>
                      \o ShownLogs(Acted(page.stream))
       /\ page.generatedIds = LastIds(Acted(page.stream))
       /\ \A i \in 1..Len(page.logs) : page.logs[i].msg # PingFrame.msg

\* the route has read a ping and the content, and the page has read to its
\* end a response with a [ping] frame among its frames
C11_Witness ==
  /\ HasLog(Log("Received ping"))
  /\ pc = "done"
  /\ accumulatedText = JSONStringify(Obj(FullDoc))
  /\ page.pc = "ended"
  /\ \E i \in 1..Len(page.stream) : page.stream[i] = PingFrame
  /\ page.generatedIds # Undefined

Creates == DynamicCreates \cup {"createPageContent"}

\* C21: when the underlying key-value store fails, the failure propagates
\* as a thrown error from create and from get in both stores: a get whose
\* read rejected throws, and a create that did not get its record written,
\* or whose read-back rejected, throws.
C21_StoreFailurePropagates ==
  /\ (api.fn \in Gets \cup Creates /\ api.read = "rejects") => api.result.r = "throws"
  /\ (api.fn \in Creates /\ ~api.wrote) => api.result.r = "throws"

\* C22: get never modifies the store: a call of get leaves the store's
\* contents as they were, and a call that repeats the call before it, on a
\* key that is as it was, returns the same data.
C22_GetReadsOnly ==
  [][/\ (api' # api /\ api'.fn \in Gets) => redis' = redis
     /\ (/\ api.fn \in Gets
         /\ api'.fn = api.fn
         /\ api'.key = api.key
         /\ api'.read = api.read
         /\ api'.found = api.found) => api'.result = api.result]_vars

\* a get returned the record of a live key
C22_Witness ==
  /\ api.fn \in Gets
  /\ api.found
  /\ api.key \in DOMAIN redis
  /\ api.result = Returned(JSONParse(redis[api.key].value))

\* C23: when a store write throws during a generation request, the caller
\* gets an HTTP error response of the 500 class.
C23_StoreFailureIsHttpError == storeFailed => response = "error500"

\* C28: a generation request writes to both stores or to neither: once it
\* has finished, a preview record of it exists if and only if a dynamic
\* record of it exists and the ids frame was emitted.
C28_BothOrNeither ==
  closed =>
    (Stored(PREVIEW_PREFIX) # {} <=> (Stored(DYNAMIC_PREFIX) # {} /\ HasFrame("ids")))

\* a string with something else than blanks in it
NonBlank(x) == IsString(x) /\ Trim(x.v) # <<>>

\* an array of at least n entries
AtLeast(x, n) == IsArray(x) /\ Len(x.v) >= n

\* the minima of a record of the dynamic store
MeetsMinima(rec) ==
  /\ AtLeast(Get(rec, "heroTitle"), 3)
  /\ AtLeast(Get(rec, "features"), 4)
  /\ AtLeast(Get(rec, "pricingTiers"), 2)
  /\ AtLeast(Get(rec, "testimonials"), 3)
  /\ AtLeast(Get(rec, "faqs"), 4)
  /\ \A f \in {"heroDescription", "featuresTitle", "pricingTitle", "pricingDescription",
               "testimonialsTitle", "faqTitle", "ctaTitle", "ctaDescription"} :
       NonBlank(Get(rec, f))
  /\ \A i \in 1..Len(Get(rec, "pricingTiers").v) :
       LET tier == Get(rec, "pricingTiers").v[i]
       IN /\ NonBlank(Get(tier, "name"))
          /\ NonBlank(Get(tier, "price"))
          /\ NonBlank(Get(tier, "description"))
          /\ AtLeast(Get(tier, "features"), 1)
  /\ \A i \in 1..Len(Get(rec, "testimonials").v) :
       LET given == Get(rec, "testimonials").v[i]
       IN /\ NonBlank(Get(given, "name"))
          /\ NonBlank(Get(given, "role"))
          /\ NonBlank(Get(given, "content"))
  /\ \A i \in 1..Len(Get(rec, "faqs").v) :
       LET faq == Get(rec, "faqs").v[i]
       IN NonBlank(Get(faq, "question")) /\ NonBlank(Get(faq, "answer"))

\* C27: createDynamicLandingPage validates before saving: given content
\* below the minima it throws and writes nothing, so every record in the
\* dynamic store meets them.
C27_ValidatedBeforeSaving ==
  /\ \A rec \in Stored(DYNAMIC_PREFIX) : MeetsMinima(rec)
  /\ (dynamicId # Undefined /\ ~MeetsMinima(Obj(DynamicRecord(dynamicId, normalized)))) =>
       /\ <<DYNAMIC_PREFIX, dynamicId>> \notin DOMAIN redis
       /\ ~HasFrame("ids")
       /\ pc = "done"
       /\ HasLog(Log("Error parsing content: "))

\* content with a blank title and lists of the right lengths was refused
C27_Witness ==
  /\ dynamicId # Undefined
  /\ \A f \in DOMAIN requiredArrays : AtLeast(normalized[f], requiredArrays[f])
  /\ ~MeetsMinima(Obj(DynamicRecord(dynamicId, normalized)))
  /\ Stored(DYNAMIC_PREFIX) = {}
  /\ pc = "done"

\* C24: the content route, asked with GET for an identifier, answers with
\* the stored record as JSON when the dynamic store holds a record under it,
\* and with status 404 and a JSON error when no key exists for it (never
\* written, or expired).
C24_RecordOr404 ==
  [][(/\ api' # api
      /\ api'.fn = "GET /api/dynamic-lp/[slug]"
      /\ api'.read # "rejects") =>
       LET res == api'.result.v
       IN IF api'.key \in DOMAIN redis
          THEN requiredFields \subseteq DOMAIN JSONParse(redis[api'.key].value).v =>
                 /\ res.status = 200
                 /\ JSONParse(res.body) = JSONParse(redis[api'.key].value)
          ELSE /\ res.status = 404
               /\ JSONParse(res.body) = Obj([error |-> Text("Content not found")])]_vars

\* the route answered 200 with the record kept under the key asked for
C24_Witness ==
  /\ api.fn = "GET /api/dynamic-lp/[slug]"
  /\ api.found
  /\ api.key \in DOMAIN redis
  /\ api.result.v.status = 200
  /\ JSONParse(api.result.v.body) = JSONParse(redis[api.key].value)

\* C25: POST /api/dynamic-lp returns the id of the record it created; when
\* the create fails, by validation or by an error of the store, it answers
\* with status 500 and success: false.
C25_IdOrFailure ==
  api.fn = "POST /api/dynamic-lp" =>
    LET res == api.result.v
    IN IF api.wrote
       THEN res.status = 200 /\ Get(JSONParse(res.body), "id") = api.key[2]
       ELSE /\ res.status = 500
            /\ Get(JSONParse(res.body), "success") = Bool(FALSE)

\* C29: every run of handleGenerate, started by the user or by
\* generateIdea, leaves both busy flags isGenerating and isGeneratingIdea
\* false, on every exit path: the done frame, the end of the stream, a
\* response that is not ok, a missing body, a thrown error.
C29_BusyFlagsCleared ==
  page.pc \in {"ended", "failed"} => ~page.isGenerating /\ ~page.isGeneratingIdea

\* a step of the viewer page that fetches the content route
ViewerFetches == Len(viewer'.waits) = Len(viewer.waits) + 1

\* C26: the viewer page fetches the content route at most 3 times per load
\* cycle; the failed attempt k (1 or 2) is followed by a retry after a delay
\* that grows with k; the third failure gives the terminal error state and
\* no further fetch; a success at any attempt shows the content and stops.
C26_AtMostThreeAttempts ==
  [][viewer'.version = 2 =>
       /\ Len(viewer'.waits) <= MAX_RETRIES
       /\ ViewerFetches =>
            LET k == Len(viewer.waits)
            IN /\ viewer.pc = "loading"
               /\ ~Truthy(viewer.content)
               /\ viewer.error = Null
               /\ viewer'.waits[k + 1] = RETRY_DELAY * k
               /\ k > 0 => viewer'.waits[k + 1] > viewer.waits[k]
               /\ \/ /\ Truthy(viewer'.content)
                     /\ viewer'.error = Null
                     /\ viewer'.pc = "settled"
                  \/ /\ k + 1 < MAX_RETRIES
                     /\ viewer'.content = viewer.content
                     /\ viewer'.error = Null
                     /\ viewer'.pc = "loading"
                  \/ /\ k + 1 = MAX_RETRIES
                     /\ viewer'.content = viewer.content
                     /\ viewer'.error # Null
                     /\ viewer'.pc = "settled"
       /\ (viewer.pc = "settled" /\ viewer'.pc = "settled") => viewer'.waits = viewer.waits]_vars

\* the third attempt failed after delays of 1000 and 2000
C26_Witness ==
  /\ viewer.version = 2
  /\ viewer.waits = <<0, RETRY_DELAY, 2 * RETRY_DELAY>>
  /\ viewer.error # Null
  /\ viewer.pc = "settled"

\* C30: once the viewer page has loaded content or entered its terminal
\* error state, it makes no further fetch for that slug, so the fetches of
\* one page load are bounded.
C30_NoFetchAfterSettling ==
  [][(viewer.version = 1 /\ (Truthy(viewer.content) \/ viewer.error # Null)) =>
       ~ViewerFetches]_vars

====
